---- MODULE Spec2Model ----
(***************************************************************************)
(* A model of logze (github.com/maxbolgarin/logze): the Logger facade over *)
(* zerolog (src/logze.go, second package body, lines 385-797), its Config  *)
(* (src/config_test.go, lines 421-656) and the global registry             *)
(* (src/unnamed/part_004).                                                 *)
(*                                                                         *)
(* Values passed as variadic arguments are modelled as strings; which Go   *)
(* type a value has is decided by the set it belongs to (Strs, Errs).      *)
(* Messages are sequences of one-character tokens, so that strings.Count,  *)
(* strings.Contains and fmt.Sprintf are computed, not assumed.             *)
(***************************************************************************)
EXTENDS Integers, Sequences, FiniteSets, TLC

VARIABLES
  log,              \* part_004:9    the package-level global Logger
  lg,               \* a Logger held by the application (a local variable)
  std,              \* the process's legacy "log" package: flags and output
  counters,         \* SimpleErrorCounter.Count of every counter object
  TimeFieldFormat,  \* zerolog.TimeFieldFormat, a package-level variable
  upd,              \* the global Update in progress (Logger.Update's frame)
  inp,              \* the inputs of the call under examination
  last,             \* what the last operation did
  heap,             \* the backing arrays of the Writers slices of Configs
  held,             \* the Config values the application holds
  gor               \* the goroutines that log concurrently, and their Inc calls

vars ==
  <<log, lg, std, counters, TimeFieldFormat, upd, inp, last, heap, held,
    gor>>

----------------------------------------------------------------------------
(* Bounds of the model. *)

\* longest variadic argument list of a call on the formatted/any-entry path
MaxArgs == 4
\* longest field list of a call in the field-list specification
MaxFields == 6
\* calls that may increment a counter are taken while it is below this
MaxCount == 1
\* earlier values of a Logger variable that a copy in progress can still hold
\* words of
MaxStale == 1

----------------------------------------------------------------------------
(* Values. *)

Nil == "nil"
Strs == {"k", "v"}
\* error values; the string form of an error is its name
Errs == {"e0", "e1"}
ArgVals == {"k", "v", "e1"}

IsError(a) == a \in Errs
IsString(a) == a \in Strs

SeqsUpTo(S, n) == UNION {[1..m -> S] : m \in 0..n}

----------------------------------------------------------------------------
(* The strings package and the fmt package, on token sequences. *)

\* strings.Contains(s, sub)
Contains(s, sub) ==
  \E i \in 0..(Len(s) - Len(sub)) : SubSeq(s, i + 1, i + Len(sub)) = sub

\* strings.Count(s, "%")
CountPercent(s) == Cardinality({i \in 1..Len(s) : s[i] = "%"})

Verbs == {"v", "s", "d"}

\* The pieces one operand prints under one verb.  %v and %s print a string
\* or an error as its text.  %d is no verb for a string, which prints the
\* bad-verb form; an error value is one made by github.com/pkg/errors, as the
\* repository makes them, whose Format method writes nothing for %d.
Formatted(verb, a) ==
  IF verb \in {"v", "s"} THEN <<a>>
  ELSE IF IsError(a) THEN <<>>
  ELSE <<"%!d(string=" \o a \o ")">>

\* fmt.Sprintf(format, args...): the verbs consume the operands in order; a
\* verb without an operand prints %!<verb>(MISSING), a lone trailing % prints
\* %!(NOVERB), %% prints a percent sign, operands left over print %!(EXTRA).
RECURSIVE SprintfFrom(_, _, _, _)
SprintfFrom(format, args, i, a) ==
  IF i > Len(format)
    THEN IF a <= Len(args) THEN <<"%!(EXTRA)">> \o SubSeq(args, a, Len(args))
                           ELSE <<>>
  ELSE IF format[i] # "%"
    THEN <<format[i]>> \o SprintfFrom(format, args, i + 1, a)
  ELSE IF i = Len(format)
    THEN <<"%!(NOVERB)">> \o SprintfFrom(format, args, i + 1, a)
  ELSE IF format[i + 1] = "%"
    THEN <<"%">> \o SprintfFrom(format, args, i + 2, a)
  ELSE IF a > Len(args)
    THEN <<"%!" \o format[i + 1] \o "(MISSING)">>
         \o SprintfFrom(format, args, i + 2, a)
  ELSE IF format[i + 1] \in Verbs
    THEN Formatted(format[i + 1], args[a])
         \o SprintfFrom(format, args, i + 2, a + 1)
  ELSE <<"%!(BADVERB)", args[a]>> \o SprintfFrom(format, args, i + 2, a + 1)

Sprintf(format, args) == SprintfFrom(format, args, 1, 1)

\* fmt.Sprint(v...): the operands' default formats; a space is added between
\* two operands when neither is a string.
RECURSIVE SprintFrom(_, _)
SprintFrom(v, i) ==
  IF i > Len(v) THEN <<>>
  ELSE (IF i > 1 /\ ~IsString(v[i - 1]) /\ ~IsString(v[i]) THEN <<" ">> ELSE <<>>)
       \o <<v[i]>> \o SprintFrom(v, i + 1)

Sprint(v) == SprintFrom(v, 1)

\* fmt.Sprintln(v...): spaces between all operands and a newline at the end
RECURSIVE SprintlnFrom(_, _)
SprintlnFrom(v, i) ==
  IF i > Len(v) THEN <<"\n">>
  ELSE (IF i > 1 THEN <<" ">> ELSE <<>>) \o <<v[i]>> \o SprintlnFrom(v, i + 1)

Sprintln(v) == SprintlnFrom(v, 1)

----------------------------------------------------------------------------
(* The zerolog backend, as far as the facade uses it. *)

Discard == "discard"

\* The seven level names of Config (config_test.go:440-448).
Levels == <<"trace", "debug", "info", "warn", "error", "fatal", "disabled">>
LevelNames == {Levels[i] : i \in 1..Len(Levels)}

\* zerolog.Level of a level name; "" is zerolog.NoLevel
LevelNum(name) ==
  CASE name = "trace" -> 0 - 1
    [] name = "debug" -> 0
    [] name = "info" -> 1
    [] name = "warn" -> 2
    [] name = "error" -> 3
    [] name = "fatal" -> 4
    [] name = "panic" -> 5
    [] name = "" -> 6
    [] name = "disabled" -> 7

\* strings.EqualFold against the level names: the name in lower case
Lower(name) ==
  CASE name = "INFO" -> "info"
    [] name = "Warn" -> "warn"
    [] OTHER -> name

\* strconv.Atoi(name) followed by Level(i), as the name of that level; Nil
\* when name is not a decimal integer
NumeralLevel(name) ==
  CASE name = "3" -> "error"
    [] name = "0" -> "debug"
    [] OTHER -> Nil

\* zerolog.ParseLevel: the eight level names in any letter case and ""
\* (NoLevel) are accepted, and so is a decimal integer
ParseLevel(name) ==
  IF Lower(name) \in LevelNames \cup {"panic", ""}
    THEN [ok |-> TRUE, level |-> Lower(name)]
  ELSE IF NumeralLevel(name) # Nil
    THEN [ok |-> TRUE, level |-> NumeralLevel(name)]
  ELSE [ok |-> FALSE, level |-> ""]

ParseLevelOk(name) == ParseLevel(name).ok

\* zerolog.Logger.should(lvl)
Should(zl, lvl) == LevelNum(lvl) >= LevelNum(zl.level)

\* zerolog.Logger.<Level>(), .Log(), .WithLevel(lvl): an event, disabled
\* (nil in zerolog) when the logger's level filters it out.
NewEvent(zl, lvl) ==
  [on |-> Should(zl, lvl), w |-> zl.w, level |-> lvl, fields |-> zl.ctx,
   errs |-> <<>>, stack |-> FALSE, stackOut |-> FALSE, caller |-> FALSE]

\* zerolog.Event.Caller
EvCaller(ev) == IF ev.on THEN [ev EXCEPT !.caller = TRUE] ELSE ev

\* zerolog.Event.Stack
EvStack(ev) == IF ev.on THEN [ev EXCEPT !.stack = TRUE] ELSE ev

\* zerolog.Event.Err(err): a nil error adds nothing; with Stack() enabled the
\* stack of an error that carries one is added too.
EvErr(ev, err, hasStack) ==
  IF ~ev.on \/ err = Nil THEN ev
  ELSE [ev EXCEPT !.errs = Append(@, err),
                  !.stackOut = @ \/ (ev.stack /\ hasStack)]

\* zerolog.Event.Fields([]any): a trailing unpaired element is dropped and a
\* pair whose key is not a string is skipped.
RECURSIVE PairsFrom(_, _)
PairsFrom(list, i) ==
  IF i + 1 > Len(list) THEN <<>>
  ELSE (IF IsString(list[i]) THEN <<(<<list[i], list[i + 1]>>)>> ELSE <<>>)
       \o PairsFrom(list, i + 2)

EvFields(ev, list) ==
  IF ev.on THEN [ev EXCEPT !.fields = @ \o PairsFrom(list, 1)] ELSE ev

\* zerolog.Event.Msg(msg): one record to every writer of the logger; what
\* goes to io.Discard is gone.
Written(w) == SelectSeq(w, LAMBDA s : s # Discard)

EvMsg(ev, msg) ==
  IF ~ev.on THEN <<>>
  ELSE [i \in 1..Len(Written(ev.w)) |->
          [sink |-> Written(ev.w)[i], level |-> ev.level, msg |-> msg,
           fields |-> ev.fields, errs |-> ev.errs, stack |-> ev.stackOut,
           caller |-> ev.caller]]

\* zerolog.Event.Msgf(format, v...)
EvMsgf(ev, format, v) == EvMsg(ev, Sprintf(format, v))

----------------------------------------------------------------------------
(* Config (config_test.go:462-656) and Logger construction. *)

RFC3339 == "rfc3339"

\* NewConfig(writers...) followed by With* calls yields such a value
Config(writers, level, toIgnore, ec, stackTrace, tff) ==
  [Writers |-> writers, Level |-> level, ToIgnore |-> toIgnore,
   ErrorCounter |-> ec, StackTrace |-> stackTrace, TimeFieldFormat |-> tff]

\* New(cfg, fields...): ok is FALSE when New panics on the level name; tff is
\* the value New has stored in zerolog.TimeFieldFormat by then.
New(cfg, fields) ==
  LET writers == IF Len(cfg.Writers) = 0 \/ cfg.Level = "disabled"
                   THEN <<Discard>> ELSE cfg.Writers
      level == IF cfg.Level = "" THEN "info" ELSE cfg.Level
      tff == IF cfg.TimeFieldFormat = "" THEN RFC3339 ELSE cfg.TimeFieldFormat
  IN [ok |-> ParseLevelOk(level),
      tff |-> tff,
      lg |-> [l |-> [w |-> writers, level |-> ParseLevel(level).level,
                     ctx |-> PairsFrom(fields, 1)],
              toIgnore |-> cfg.ToIgnore,
              errCounter |-> cfg.ErrorCounter,
              stackTrace |-> cfg.StackTrace,
              inited |-> TRUE]]

\* a variant without the early return for the empty name
Logger_WithLevel_ParsesEmpty(l, level) ==
  LET p == ParseLevel(level) IN
  [ok |-> p.ok, lg |-> IF p.ok THEN [l EXCEPT !.l.level = p.level] ELSE l]

\* Logger.WithLevel(level): ok is FALSE when it panics
Logger_WithLevel(l, level) ==
  IF level = "" THEN [ok |-> TRUE, lg |-> l]
  ELSE LET p == ParseLevel(level) IN
       [ok |-> p.ok, lg |-> IF p.ok THEN [l EXCEPT !.l.level = p.level] ELSE l]

\* Logger.WithFields(fields...)
Logger_WithFields(l, fields) ==
  [l EXCEPT !.l.ctx = @ \o PairsFrom(fields, 1)]

----------------------------------------------------------------------------
(* Config.Writers as a Go slice: a backing array of the heap, a length and *)
(* a capacity.  The builders take and return Config by value; the backing  *)
(* array is shared by every copy.                                          *)

NilSlice == [arr |-> 0, len |-> 0, cap |-> 0]

\* the elements a slice shows
Elems(h, s) == [i \in 1..s.len |-> h[s.arr][i]]

\* a function call with variadic arguments: a fresh array of exactly that
\* many elements, a nil slice when there are none
Variadic(h, ws) ==
  IF Len(ws) = 0 THEN [heap |-> h, s |-> NilSlice]
  ELSE [heap |-> Append(h, ws),
        s |-> [arr |-> Len(h) + 1, len |-> Len(ws), cap |-> Len(ws)]]

\* the built-in append(s, w): in place when the capacity allows it, else a
\* new array of twice the capacity (one element for an empty one)
SliceAppend(h, s, w) ==
  IF s.len < s.cap
    THEN [heap |-> [h EXCEPT ![s.arr][s.len + 1] = w],
          s |-> [s EXCEPT !.len = @ + 1]]
    ELSE LET c == IF s.cap = 0 THEN 1 ELSE 2 * s.cap
         IN [heap |-> Append(h, [i \in 1..c |->
                                  IF i <= s.len THEN h[s.arr][i]
                                  ELSE IF i = s.len + 1 THEN w ELSE Nil]),
             s |-> [arr |-> Len(h) + 1, len |-> s.len + 1, cap |-> c]]

\* NewConfig(writers...)
NewConfig(h, ws) ==
  LET r == Variadic(h, ws) IN
  [heap |-> r.heap, cfg |-> [Writers |-> r.s, Level |-> ""]]

\* c.WithWriter(w): c.Writers = append(c.Writers, w); return c
Config_WithWriter(h, c, w) ==
  LET r == SliceAppend(h, c.Writers, w) IN
  [heap |-> r.heap, cfg |-> [c EXCEPT !.Writers = r.s]]

\* c.WithLevel(level): c.Level = level; return c
Config_WithLevel(h, c, level) ==
  [heap |-> h, cfg |-> [c EXCEPT !.Level = level]]

----------------------------------------------------------------------------
(* The argument classifier and the Logger's private methods. *)

\* Logger.incErrorConter: the number of Inc calls made on l.errCounter
incErrorConter(l) == IF l.errCounter # Nil THEN 1 ELSE 0

\* index of the first error-typed element of args, 0 when there is none
FirstError(args) ==
  IF \E i \in 1..Len(args) : IsError(args[i])
    THEN CHOOSE i \in 1..Len(args) :
           IsError(args[i]) /\ \A j \in 1..(i - 1) : ~IsError(args[j])
    ELSE 0

\* a variant that removes the error alone: append(args[:i], args[i+1:]...)
RemoveInPlace_OnlyError(args, j) ==
  [p \in 1..Len(args) |->
     IF p >= j /\ p <= Len(args) - 1 THEN args[p + 1] ELSE args[p]]

\* _ = append(args[:i-1], args[i+1:]...) for the 0-based i = j - 1: the
\* elements after the error move two places down inside the same backing
\* array; the slice keeps its length, so its last two places keep their
\* old contents.
RemoveInPlace(args, j) ==
  [p \in 1..Len(args) |->
     IF p >= j - 1 /\ p <= Len(args) - 2 THEN args[p + 2] ELSE args[p]]

\* a variant that goes on after the first error and extracts the last one
\* as well
setErrorWithStack_EveryError(l, ev, args) ==
  LET j == FirstError(args)
      k == CHOOSE i \in 0..Len(args) :
             IF j = 0 THEN i = 0
             ELSE /\ i > 0 /\ IsError(args[i])
                  /\ \A m \in (i + 1)..Len(args) : ~IsError(args[m])
      e == EvErr(IF l.stackTrace THEN EvStack(ev) ELSE ev, args[j],
                 l.stackTrace)
  IN
  IF j = 0 THEN [ev |-> ev, args |-> args, inc |-> 0]
  ELSE [ev |-> IF k # j THEN EvErr(e, args[k], l.stackTrace) ELSE e,
        args |-> IF j - 2 >= 0 THEN RemoveInPlace(args, j) ELSE args,
        inc |-> incErrorConter(l)]

\* a variant that forgets l.incErrorConter()
setErrorWithStack_NoCount(l, ev, args) ==
  LET j == FirstError(args) IN
  IF j = 0 THEN [ev |-> ev, args |-> args, inc |-> 0]
  ELSE [ev |-> EvErr(IF l.stackTrace THEN EvStack(ev) ELSE ev, args[j],
                     l.stackTrace),
        args |-> IF j - 2 >= 0 THEN RemoveInPlace(args, j) ELSE args,
        inc |-> 0]

\* a variant that leaves a disabled event alone, counter included
setErrorWithStack_SkipsDisabled(l, ev, args) ==
  LET j == FirstError(args) IN
  IF j = 0 \/ ~ev.on THEN [ev |-> ev, args |-> args, inc |-> 0]
  ELSE [ev |-> EvErr(IF l.stackTrace THEN EvStack(ev) ELSE ev, args[j],
                     l.stackTrace),
        args |-> IF j - 2 >= 0 THEN RemoveInPlace(args, j) ELSE args,
        inc |-> incErrorConter(l)]

\* Logger.setErrorWithStack(ev, args...): ev and args afterwards, and the
\* number of counter increments.
setErrorWithStack(l, ev, args) ==
  LET j == FirstError(args) IN
  IF j = 0 THEN [ev |-> ev, args |-> args, inc |-> 0]
  ELSE [ev |-> EvErr(IF l.stackTrace THEN EvStack(ev) ELSE ev, args[j],
                     l.stackTrace),
        args |-> IF j - 2 >= 0 THEN RemoveInPlace(args, j) ELSE args,
        inc |-> incErrorConter(l)]

\* the loop over l.toIgnore in log and logf
Ignored(l, msg) ==
  \E i \in 1..Len(l.toIgnore) : Contains(msg, l.toIgnore[i])

Fx(inc, recs) ==
  [i \in 1..inc |-> "inc"] \o (IF Len(recs) > 0 THEN <<"emit">> ELSE <<>>)

\* Logger.log(ev, msg, fields): the records written, the increments made,
\* the caller's slice afterwards and the order of the effects.
Logger_log(l, ev, msg, fields) ==
  IF Ignored(l, msg)
    THEN [recs |-> <<>>, inc |-> 0, args |-> fields, fx |-> <<>>]
  ELSE LET s == IF Len(fields) > 1 THEN setErrorWithStack(l, ev, fields)
                ELSE [ev |-> ev, args |-> fields, inc |-> 0]
           e == IF Len(fields) > 1 THEN EvFields(s.ev, s.args) ELSE s.ev
           recs == EvMsg(e, msg)
       IN [recs |-> recs, inc |-> s.inc, args |-> s.args,
           fx |-> Fx(s.inc, recs)]

\* a variant without the branch for a message that has no marker: the
\* arguments reach Msgf
Logger_logf_NoBareBranch(l, ev, msg, args) ==
  IF Ignored(l, msg)
    THEN [recs |-> <<>>, inc |-> 0, args |-> args, fx |-> <<>>]
  ELSE LET n == CountPercent(msg)
           split == n > 0 /\ n <= Len(args)
           s == IF split THEN setErrorWithStack(l, ev, args)
                ELSE [ev |-> ev, args |-> args, inc |-> 0]
           e == IF split THEN EvFields(s.ev, SubSeq(s.args, n + 1, Len(args)))
                ELSE s.ev
           fargs == IF split THEN SubSeq(s.args, 1, n) ELSE s.args
           recs == IF Len(fargs) = 0 THEN EvMsg(e, msg)
                   ELSE EvMsgf(e, msg, fargs)
       IN [recs |-> recs, inc |-> s.inc, args |-> s.args,
           fx |-> Fx(s.inc, recs)]

\* a variant that writes the message as it is when the arguments are fewer
\* than the markers
Logger_logf_VerbatimWhenShort(l, ev, msg, args) ==
  IF Ignored(l, msg)
    THEN [recs |-> <<>>, inc |-> 0, args |-> args, fx |-> <<>>]
  ELSE LET n == CountPercent(msg)
           split == n > 0 /\ n <= Len(args)
           allFields == n = 0 /\ Len(args) > 0
           s == IF split \/ allFields THEN setErrorWithStack(l, ev, args)
                ELSE [ev |-> ev, args |-> args, inc |-> 0]
           e == IF split THEN EvFields(s.ev, SubSeq(s.args, n + 1, Len(args)))
                ELSE IF allFields THEN EvFields(s.ev, s.args)
                ELSE s.ev
           fargs == IF split THEN SubSeq(s.args, 1, n) ELSE <<>>
           recs == IF Len(fargs) = 0 THEN EvMsg(e, msg)
                   ELSE EvMsgf(e, msg, fargs)
       IN [recs |-> recs, inc |-> s.inc, args |-> s.args,
           fx |-> Fx(s.inc, recs)]

\* Logger.logf(ev, msg, args)
Logger_logf(l, ev, msg, args) ==
  IF Ignored(l, msg)
    THEN [recs |-> <<>>, inc |-> 0, args |-> args, fx |-> <<>>]
  ELSE LET n == CountPercent(msg)
           split == n > 0 /\ n <= Len(args)
           allFields == n = 0 /\ Len(args) > 0
           s == IF split \/ allFields THEN setErrorWithStack(l, ev, args)
                ELSE [ev |-> ev, args |-> args, inc |-> 0]
           e == IF split THEN EvFields(s.ev, SubSeq(s.args, n + 1, Len(args)))
                ELSE IF allFields THEN EvFields(s.ev, s.args)
                ELSE s.ev
           fargs == IF split THEN SubSeq(s.args, 1, n)
                    ELSE IF allFields THEN <<>>
                    ELSE s.args
           recs == IF Len(fargs) = 0 THEN EvMsg(e, msg)
                   ELSE EvMsgf(e, msg, fargs)
       IN [recs |-> recs, inc |-> s.inc, args |-> s.args,
           fx |-> Fx(s.inc, recs)]

\* a call that returns to its caller
Returns(r) == r @@ [out |-> "return", pval |-> <<>>]

----------------------------------------------------------------------------
(* The Logger's entry points (logze.go:572-713): what a call does, given   *)
(* the Logger value it runs on.                                            *)

Logger_Trace(l, msg, fields) ==
  Returns(Logger_log(l, EvCaller(NewEvent(l.l, "trace")), msg, fields))
Logger_Tracef(l, msg, args) ==
  Returns(Logger_logf(l, EvCaller(NewEvent(l.l, "trace")), msg, args))
\* a variant that asks the backend for an info event
Logger_Debug_AsInfo(l, msg, fields) ==
  Returns(Logger_log(l, NewEvent(l.l, "info"), msg, fields))
Logger_Debug(l, msg, fields) ==
  Returns(Logger_log(l, NewEvent(l.l, "debug"), msg, fields))
Logger_Debugf(l, msg, args) ==
  Returns(Logger_logf(l, NewEvent(l.l, "debug"), msg, args))
Logger_Info(l, msg, fields) ==
  Returns(Logger_log(l, NewEvent(l.l, "info"), msg, fields))
Logger_Infof(l, msg, args) ==
  Returns(Logger_logf(l, NewEvent(l.l, "info"), msg, args))
Logger_Warn(l, msg, fields) ==
  Returns(Logger_log(l, NewEvent(l.l, "warn"), msg, fields))
Logger_Warnf(l, msg, args) ==
  Returns(Logger_logf(l, NewEvent(l.l, "warn"), msg, args))
Logger_Error(l, msg, fields) ==
  Returns(Logger_log(l, NewEvent(l.l, "error"), msg, fields))
Logger_Errorf(l, msg, args) ==
  Returns(Logger_logf(l, NewEvent(l.l, "error"), msg, args))

\* a variant that attaches err without counting it
Logger_Err_Uncounted(l, err, msg, fields) ==
  LET s == setErrorWithStack(l, NewEvent(l.l, "error"), <<err>>)
      r == Logger_log(l, s.ev, msg, fields)
  IN Returns([recs |-> r.recs, inc |-> r.inc, args |-> r.args, fx |-> r.fx])

\* a variant that returns at once when err is nil
Logger_Err_ElidesNil(l, err, msg, fields) ==
  IF err = Nil
    THEN Returns([recs |-> <<>>, inc |-> 0, args |-> fields, fx |-> <<>>])
  ELSE LET s == setErrorWithStack(l, NewEvent(l.l, "error"), <<err>>)
           r == Logger_log(l, s.ev, msg, fields)
       IN Returns([recs |-> r.recs, inc |-> s.inc + r.inc, args |-> r.args,
                   fx |-> Fx(s.inc, <<>>) \o r.fx])

\* Logger.Err(err, msg, fields...): setErrorWithStack runs on the one-element
\* list [err] while the arguments of l.log are evaluated, before log's
\* ignore-list loop.
Logger_Err(l, err, msg, fields) ==
  LET s == setErrorWithStack(l, NewEvent(l.l, "error"), <<err>>)
      r == Logger_log(l, s.ev, msg, fields)
  IN Returns([recs |-> r.recs, inc |-> s.inc + r.inc, args |-> r.args,
              fx |-> Fx(s.inc, <<>>) \o r.fx])

\* a variant that writes the record before it counts
FatalLike_EmitFirst(l, s, v, out) ==
  LET r == Logger_log(l, NewEvent(l.l, "fatal"), s, <<>>)
  IN [recs |-> r.recs, inc |-> incErrorConter(l), args |-> v,
      fx |-> r.fx \o Fx(incErrorConter(l), <<>>) \o <<out>>,
      out |-> out, pval |-> IF out = "panic" THEN s ELSE <<>>]

\* Fatal, Fatalln, Panic, Panicln: the counter first, then the record, then
\* os.Exit(1) or panic(s).
FatalLike(l, s, v, out) ==
  LET r == Logger_log(l, NewEvent(l.l, "fatal"), s, <<>>)
  IN [recs |-> r.recs, inc |-> incErrorConter(l), args |-> v,
      fx |-> Fx(incErrorConter(l), <<>>) \o r.fx \o <<out>>,
      out |-> out, pval |-> IF out = "panic" THEN s ELSE <<>>]

Logger_Fatal(l, v) == FatalLike(l, Sprint(v), v, "exit")
Logger_Fatalln(l, v) == FatalLike(l, Sprintln(v), v, "exit")
Logger_Panic(l, v) == FatalLike(l, Sprint(v), v, "panic")
Logger_Panicln(l, v) == FatalLike(l, Sprintln(v), v, "panic")

\* Fatalf, Panicf: the format string and the arguments go to l.log, which
\* takes the arguments as fields; Panicf then formats what log has left in
\* args.
FatalfLike(l, format, args, out) ==
  LET r == Logger_log(l, NewEvent(l.l, "fatal"), format, args)
  IN [recs |-> r.recs, inc |-> incErrorConter(l) + r.inc, args |-> r.args,
      fx |-> Fx(incErrorConter(l), <<>>) \o r.fx \o <<out>>,
      out |-> out,
      pval |-> IF out = "panic" THEN Sprintf(format, r.args) ELSE <<>>]

Logger_Fatalf(l, format, args) == FatalfLike(l, format, args, "exit")
Logger_Panicf(l, format, args) == FatalfLike(l, format, args, "panic")

\* fmt.Sprintf("%+v", errors.WithStack(err)): the text of the error and the
\* stack it was wrapped with; errors.WithStack(nil) is nil
StackText(err) == IF err = Nil THEN <<"<nil>">> ELSE <<err, "stack">>

\* Logger.ErrStack(err, fields...): the stack text of err is the message; err
\* itself is neither attached nor counted
Logger_ErrStack(l, err, fields) ==
  Returns(Logger_log(l, NewEvent(l.l, "error"), StackText(err), fields))

\* Logger.PrintStack(v...): string(debug.Stack()) is the message and v the
\* field list
Logger_PrintStack(l, v) ==
  Returns(Logger_log(l, NewEvent(l.l, ""), <<"stack">>, v))

Logger_Print(l, v) ==
  IF Len(v) = 0
    THEN Returns([recs |-> <<>>, inc |-> 0, args |-> v, fx |-> <<>>])
    ELSE Returns([Logger_log(l, NewEvent(l.l, ""), Sprint(v), <<>>)
                    EXCEPT !.args = v])
Logger_Printf(l, format, args) ==
  Returns(Logger_logf(l, NewEvent(l.l, ""), format, args))
Logger_Println(l, v) ==
  Returns([Logger_log(l, NewEvent(l.l, ""), Sprintln(v), <<>>)
             EXCEPT !.args = v])

----------------------------------------------------------------------------
(* State. *)

Counters == {"c1", "c2"}

\* var log = NewConsoleJSON() (part_004:9)
NewConsoleJSON ==
  New(Config(<<"stderr">>, "", <<>>, Nil, FALSE, ""), <<>>).lg

\* Nop() (logze.go:504): zerolog.Nop() is a logger with level Disabled
Nop ==
  [l |-> [w |-> <<Discard>>, level |-> "disabled", ctx |-> <<>>],
   toIgnore |-> <<>>, errCounter |-> Nil, stackTrace |-> FALSE,
   inited |-> FALSE]

NoConfig == Config(<<>>, "", <<>>, Nil, FALSE, "")

\* the legacy log package before anything is mirrored into it: date and time
\* flags, output to stderr
StdInit == [flags |-> {"Ldate", "Ltime"}, mirrored |-> FALSE, out |-> Nop]

UpdIdle ==
  [pc |-> "idle", k |-> 1, op |-> "none", tgt |-> "none", old |-> Nop,
   new |-> Nop, cfg |-> NoConfig, fields |-> <<>>,
   was |-> [log |-> <<>>, lg |-> <<>>]]

NoOp ==
  [op |-> "none", lg |-> Nop, msg |-> <<>>, args |-> <<>>, err |-> Nil,
   cfg |-> NoConfig, count0 |-> [c \in Counters |-> 0],
   recs |-> <<>>, inc |-> 0, argsAfter |-> <<>>, fx |-> <<>>,
   out |-> "return", pval |-> <<>>]

\* Inc on the counter l holds: inc calls of SimpleErrorCounter.Inc
Incremented(l, inc) ==
  IF l.errCounter # Nil THEN [counters EXCEPT ![l.errCounter] = @ + inc]
  ELSE counters

----------------------------------------------------------------------------
(* One call on the Logger lg with the inputs inp: the specifications that  *)
(* examine a single call draw lg and inp in their initial states.          *)

Ig == <<"i", "g">>

Msgs == {<<"m">>, Ig, <<"m", "%", "v">>, <<"%", "s", "%", "d">>,
         <<"i", "g", "%", "v">>}

CallConfigs ==
  { Config(<<"b1">>, "trace", <<>>, "c1", FALSE, ""),
    Config(<<"b1">>, "trace", <<Ig>>, "c1", FALSE, ""),
    Config(<<"b1">>, "debug", <<>>, "c1", TRUE, ""),
    Config(<<"b1", "b2">>, "info", <<>>, Nil, FALSE, ""),
    Config(<<>>, "error", <<Ig>>, "c1", FALSE, ""),
    Config(<<"b1">>, "info", <<(<<"m", "k">>)>>, "c1", FALSE, "") }

Call(op, err, r) ==
  /\ last.op = "none"
  /\ counters' = Incremented(lg, r.inc)
  /\ last' = [op |-> op, lg |-> lg, msg |-> inp.msg, args |-> inp.args,
              err |-> err, cfg |-> NoConfig, count0 |-> counters,
              recs |-> r.recs, inc |-> r.inc, argsAfter |-> r.args,
              fx |-> r.fx, out |-> r.out, pval |-> r.pval]
  /\ UNCHANGED <<log, lg, std, TimeFieldFormat, upd, inp, heap, held, gor>>

Call_Trace ==
  Call("Trace", Nil, Logger_Trace(lg, inp.msg, inp.args))
Call_Tracef ==
  Call("Tracef", Nil, Logger_Tracef(lg, inp.msg, inp.args))
Call_Debug ==
  Call("Debug", Nil, Logger_Debug(lg, inp.msg, inp.args))
Call_Debugf ==
  Call("Debugf", Nil, Logger_Debugf(lg, inp.msg, inp.args))
Call_Info ==
  Call("Info", Nil, Logger_Info(lg, inp.msg, inp.args))
Call_Infof ==
  Call("Infof", Nil, Logger_Infof(lg, inp.msg, inp.args))
Call_Warn ==
  Call("Warn", Nil, Logger_Warn(lg, inp.msg, inp.args))
Call_Warnf ==
  Call("Warnf", Nil, Logger_Warnf(lg, inp.msg, inp.args))
Call_Error ==
  Call("Error", Nil, Logger_Error(lg, inp.msg, inp.args))
Call_Errorf ==
  Call("Errorf", Nil, Logger_Errorf(lg, inp.msg, inp.args))
Call_Fatalf ==
  Call("Fatalf", Nil, Logger_Fatalf(lg, inp.msg, inp.args))
Call_Panicf ==
  Call("Panicf", Nil, Logger_Panicf(lg, inp.msg, inp.args))
Call_Printf ==
  Call("Printf", Nil, Logger_Printf(lg, inp.msg, inp.args))
Call_Fatal ==
  Call("Fatal", Nil, Logger_Fatal(lg, inp.args))
Call_Fatalln ==
  Call("Fatalln", Nil, Logger_Fatalln(lg, inp.args))
Call_Panic ==
  Call("Panic", Nil, Logger_Panic(lg, inp.args))
Call_Panicln ==
  Call("Panicln", Nil, Logger_Panicln(lg, inp.args))
Call_Print ==
  Call("Print", Nil, Logger_Print(lg, inp.args))
Call_Println ==
  Call("Println", Nil, Logger_Println(lg, inp.args))
Call_Err ==
  \E err \in {Nil, "e0"} :
    Call("Err", err, Logger_Err(lg, err, inp.msg, inp.args))
Call_ErrStack ==
  \E err \in {Nil, "e0"} :
    Call("ErrStack", err, Logger_ErrStack(lg, err, inp.args))
Call_PrintStack ==
  Call("PrintStack", Nil, Logger_PrintStack(lg, inp.args))

NextCall ==
  \/ Call_Trace
  \/ Call_Tracef
  \/ Call_Debug
  \/ Call_Debugf
  \/ Call_Info
  \/ Call_Infof
  \/ Call_Warn
  \/ Call_Warnf
  \/ Call_Error
  \/ Call_Errorf
  \/ Call_Fatalf
  \/ Call_Panicf
  \/ Call_Printf
  \/ Call_Err
  \/ Call_ErrStack
  \/ Call_PrintStack
  \/ Call_Fatal
  \/ Call_Fatalln
  \/ Call_Panic
  \/ Call_Panicln
  \/ Call_Print
  \/ Call_Println

Goroutines == {"g1", "g2"}

\* no goroutine is logging
NoGor ==
  [procs |-> [g \in Goroutines |->
                [pc |-> "idle", lg |-> Nop, c |-> Nil, todo |-> 0, calls |-> 0]],
   incs |-> [c \in Counters |-> 0]]

NoGoroutines == gor = NoGor

\* no Config is being built
NoHeld ==
  [pc |-> "none", base |-> [Writers |-> NilSlice, Level |-> ""],
   base0 |-> <<>>, c1 |-> [Writers |-> NilSlice, Level |-> ""],
   c2 |-> [Writers |-> NilSlice, Level |-> ""]]

NoConfigsHeld == heap = <<>> /\ held = NoHeld

InitRest ==
  /\ log = NewConsoleJSON
  /\ std = StdInit
  /\ counters = [c \in Counters |-> 0]
  /\ TimeFieldFormat = RFC3339
  /\ upd = UpdIdle
  /\ last = NoOp

\* every entry point on argument lists of every content
InitCall ==
  /\ \E cfg \in CallConfigs : lg = New(cfg, <<>>).lg
  /\ \E msg \in Msgs, args \in SeqsUpTo(ArgVals, MaxArgs) :
       inp = [msg |-> msg, args |-> args]
  /\ InitRest
  /\ NoConfigsHeld
  /\ NoGoroutines

SpecCall == InitCall /\ [][NextCall]_vars


\* field lists long enough for three pairs, on the Loggers of the tests
FieldConfigs ==
  { Config(<<"b1">>, "trace", <<>>, "c1", FALSE, ""),
    Config(<<"b1">>, "warn", <<Ig>>, "c1", TRUE, "") }

InitFields ==
  /\ \E cfg \in FieldConfigs : lg = New(cfg, <<>>).lg
  /\ \E msg \in {<<"m">>, Ig}, args \in SeqsUpTo(ArgVals, MaxFields) :
       inp = [msg |-> msg, args |-> args]
  /\ InitRest
  /\ NoConfigsHeld
  /\ NoGoroutines

SpecFields == InitFields /\ [][NextCall]_vars

\* longest argument list of a call in the level specification
MaxLevelArgs == 2

\* a Logger of every minimum level, with an empty ignore-list
InitLevel ==
  /\ \E level \in LevelNames :
       lg = New(Config(<<"b1">>, level, <<>>, "c1", FALSE, ""), <<>>).lg
  /\ \E msg \in {<<"m">>, <<"m", "%", "v">>},
        args \in SeqsUpTo(ArgVals, MaxLevelArgs) :
       inp = [msg |-> msg, args |-> args]
  /\ InitRest
  /\ NoConfigsHeld
  /\ NoGoroutines

SpecLevel == InitLevel /\ [][NextCall]_vars

----------------------------------------------------------------------------
(* Building Configs: base is built with NewConfig and any number of With*  *)
(* calls, then two callers derive c1 and c2 from it.                       *)

\* longest writer list base is built with
MaxWriters == 3

CfgWriters == {"b1", "b2"}

CfgUnchanged ==
  UNCHANGED <<log, lg, std, counters, TimeFieldFormat, upd, inp, last, gor>>

\* base = base.WithWriter(w)
Cfg_WithWriter ==
  \E w \in CfgWriters :
    LET r == Config_WithWriter(heap, held.base, w) IN
    /\ held.pc = "build"
    /\ held.base.Writers.len < MaxWriters
    /\ heap' = r.heap
    /\ held' = [held EXCEPT !.base = r.cfg]
    /\ CfgUnchanged

\* base = base.WithLevel("debug")
Cfg_WithLevel ==
  LET r == Config_WithLevel(heap, held.base, "debug") IN
  /\ held.pc = "build"
  /\ held.base.Level = ""
  /\ heap' = r.heap
  /\ held' = [held EXCEPT !.base = r.cfg]
  /\ CfgUnchanged

\* c1 := base.WithWriter(a)
Cfg_Derive1 ==
  LET r == Config_WithWriter(heap, held.base, "a") IN
  /\ held.pc = "build"
  /\ heap' = r.heap
  /\ held' = [held EXCEPT !.pc = "one", !.c1 = r.cfg,
                          !.base0 = Elems(heap, held.base.Writers)]
  /\ CfgUnchanged

\* c2 := base.WithWriter(b), or c2 := base.WithLevel("warn")
Cfg_Derive2 ==
  \E r \in {Config_WithWriter(heap, held.base, "b"),
             Config_WithLevel(heap, held.base, "warn")} :
    /\ held.pc = "one"
    /\ heap' = r.heap
    /\ held' = [held EXCEPT !.pc = "done", !.c2 = r.cfg]
    /\ CfgUnchanged

NextConfig ==
  \/ Cfg_WithWriter
  \/ Cfg_WithLevel
  \/ Cfg_Derive1
  \/ Cfg_Derive2

\* base := NewConfig(writers...)
InitConfig ==
  /\ \E ws \in SeqsUpTo(CfgWriters, 2) :
       LET r == NewConfig(<<>>, ws) IN
       /\ heap = r.heap
       /\ held = [NoHeld EXCEPT !.pc = "build", !.base = r.cfg]
  /\ lg = NewConsoleJSON
  /\ inp = [msg |-> <<>>, args |-> <<>>]
  /\ InitRest
  /\ NoGoroutines

SpecConfig == InitConfig /\ [][NextConfig]_vars

----------------------------------------------------------------------------
(* Logger.Update (logze.go:508-517) and the global registry (part_004).    *)
(* One goroutine configures (Init, Update, SetDefault, SetStdLogger,       *)
(* lg.Update); another logs at any moment through the free functions, the  *)
(* Logger lg and the legacy log package.                                   *)

\* the assignments of Logger.Update, in program order
UpdateOrder == <<"l", "inited", "errCounter", "stackTrace", "toIgnore">>

\* a variant without the assignment of errCounter
AssignField_NoCounter(l, newLogger, f) ==
  IF f = "errCounter" THEN l ELSE [l EXCEPT ![f] = newLogger[f]]

\* a variant that leaves the backend handle as it was
AssignField_KeepsBackend(l, newLogger, f) ==
  IF f = "l" THEN l ELSE [l EXCEPT ![f] = newLogger[f]]

\* l.<f> = newLogger.<f>
AssignField(l, newLogger, f) == [l EXCEPT ![f] = newLogger[f]]

RECURSIVE AssignFrom(_, _, _)
AssignFrom(l, newLogger, k) ==
  IF k > Len(UpdateOrder) THEN l
  ELSE AssignFrom(AssignField(l, newLogger, UpdateOrder[k]), newLogger, k + 1)

\* Logger.Update once New has returned newLogger: every assignment, in order
Logger_Update(l, newLogger) == AssignFrom(l, newLogger, 1)

\* a variant without stdlog.SetFlags(0)
StdMirror_KeepsFlags(l, fields) ==
  [flags |-> {"Ldate", "Ltime"}, mirrored |-> TRUE,
   out |-> Logger_WithFields(l, fields)]

\* SetStdLogger(l, fields...): stdlog.SetFlags(0); stdlog.SetOutput(l.WithFields(fields...))
StdMirror(l, fields) ==
  [flags |-> {}, mirrored |-> TRUE, out |-> Logger_WithFields(l, fields)]

RegConfigs ==
  { Config(<<"b1">>, "info", <<Ig>>, Nil, FALSE, ""),
    Config(<<"b2">>, "debug", <<Ig>>, "c1", FALSE, "unix"),
    Config(<<"b1">>, "loud", <<>>, Nil, FALSE, "") }

RegFields == {<<"k", "v">>}
RegMsgs == {<<"m">>, Ig}
RegArgs == {<<"k", "e1">>}
RegIgnore == {<<Ig>>}

\* the calls of the logging goroutine
LogOps == {"Info", "Err", "Logger.Info", "stdlog.Print"}

\* what a configuring operation leaves in last
Configured(op, cfg, fields, out) ==
  [NoOp EXCEPT !.op = op, !.cfg = cfg, !.args = fields, !.out = out,
               !.count0 = counters]

\* One goroutine configures and another one logs.  The configuring
\* goroutine runs its operation statement by statement; upd says where it
\* is: the operation, the Logger variable it assigns to, the Logger that was
\* there, the Logger being installed, and the arguments of the operation.
\* upd.was keeps, for log and for lg, the values the variable held before
\* its latest assignments; a copy that was begun then can still hold them.
Begun(pc, op, tgt, old, new, cfg, fields) ==
  [pc |-> pc, k |-> 1, op |-> op, tgt |-> tgt, old |-> old, new |-> new,
   cfg |-> cfg, fields |-> fields, was |-> upd.was]

\* the earlier values of a variable once v has been replaced by now
Keep(h, v, now) ==
  IF v = now THEN h
  ELSE LET all == <<v>> \o h
       IN SubSeq(all, 1, IF Len(all) > MaxStale THEN MaxStale ELSE Len(all))

\* upd.was once the assignment under way is done
Replaced(v, now) == [upd.was EXCEPT ![upd.tgt] = Keep(@, v, now)]

\* the configuring operation has done one more statement; last holds what
\* the latest step did, so a statement of the configuring goroutine takes
\* the place of an earlier logging call
Running == Configured(upd.op, upd.cfg, upd.fields, "running")

\* the configuring operation returns
Finished ==
  [Configured(upd.op, upd.cfg, upd.fields, "return") EXCEPT !.lg = upd.new]

\* the logging goroutine: idle, back from a call, holding a line that the
\* legacy package has formatted and not yet written, or crashed together
\* with the process.  stale and broken describe the copy of the Logger that
\* its latest call worked on.
LogIdle ==
  [pc |-> "idle", msg |-> <<>>, line |-> <<>>, stale |-> 0, broken |-> "none"]

\* A statement of the configuring goroutine comes after the return of a
\* logging call that was made before it; a line not yet written stays.
Settled == IF gor.pc = "called" THEN LogIdle ELSE gor

\* the process runs: a nil dereference in one goroutine ends all of them
Alive == gor.pc # "crashed"

\* a configuring operation whose first statement is New(cfg, fields...):
\* New stores the time format and returns the new Logger, or panics
StartsWithNew(pc, op, tgt, old) ==
  \E cfg \in RegConfigs, fields \in RegFields :
    LET r == New(cfg, fields) IN
    /\ Alive
    /\ upd.pc = "idle"
    /\ TimeFieldFormat' = r.tff
    /\ IF r.ok
         THEN /\ upd' = Begun(pc, op, tgt, old, r.lg, cfg, fields)
              /\ last' = Configured(op, cfg, fields, "running")
         ELSE /\ last' = Configured(op, cfg, fields, "panic")
              /\ UNCHANGED upd
    /\ gor' = Settled
    /\ UNCHANGED <<log, lg, std, counters, inp, heap, held>>

\* Init(cfg, fields...), first statement: New(cfg, fields...); then come
\* log = <the new Logger> and SetStdLogger(log)
Init == StartsWithNew("store", "Init", "log", log)

\* Update(cfg, fields...), first step: log.Update calls New(cfg, fields...);
\* then come the five assignments and SetStdLogger(log)
Update_New == StartsWithNew("assign", "Update", "log", log)

\* lg.Update(cfg, fields...), first step: New(cfg, fields...); then come the
\* five assignments
Lg_Update == StartsWithNew("assign", "Logger.Update", "lg", lg)

\* SetDefault(l) with the application's Logger: the call; log = l comes next
SetDefault ==
  /\ Alive
  /\ upd.pc = "idle"
  /\ upd' = Begun("store", "SetDefault", "log", log, lg, NoConfig, <<>>)
  /\ last' = Configured("SetDefault", NoConfig, <<>>, "running")
  /\ gor' = Settled
  /\ UNCHANGED <<log, lg, std, counters, TimeFieldFormat, inp, heap, held>>

\* SetStdLogger(l, fields...) with the application's Logger: the call;
\* stdlog.SetFlags(0), stdlog.SetOutput(...) and log = l come next
SetStdLogger ==
  \E fields \in {<<>>} :
    /\ Alive
    /\ upd.pc = "idle"
    /\ upd' = Begun("flags", "SetStdLogger", "log", log, lg, NoConfig, fields)
    /\ last' = Configured("SetStdLogger", NoConfig, fields, "running")
    /\ gor' = Settled
    /\ UNCHANGED <<log, lg, std, counters, TimeFieldFormat, inp, heap, held>>

\* WithToIgnore(toIgnore...): the call; log.toIgnore = toIgnore comes next
WithToIgnore ==
  \E toIgnore \in RegIgnore :
    /\ Alive
    /\ upd.pc = "idle"
    /\ upd' = Begun("store", "WithToIgnore", "log", log,
                    [log EXCEPT !.toIgnore = toIgnore], NoConfig, <<>>)
    /\ last' = Configured("WithToIgnore", NoConfig, <<>>, "running")
    /\ gor' = Settled
    /\ UNCHANGED <<log, lg, std, counters, TimeFieldFormat, inp, heap, held>>

\* log = New(...) of Init (part_004:24), log = l of SetDefault
\* (part_004:18) and log.toIgnore = toIgnore of WithToIgnore (part_004:72):
\* the store is done
Log_Store ==
  /\ Alive
  /\ upd.pc = "store"
  /\ log' = upd.new
  /\ IF upd.op = "Init"
       THEN /\ upd' = [upd EXCEPT !.pc = "flags",
                                  !.was = Replaced(log, upd.new)]
            /\ last' = Running
       ELSE /\ upd' = [UpdIdle EXCEPT !.was = Replaced(log, upd.new)]
            /\ last' = Finished
  /\ gor' = Settled
  /\ UNCHANGED <<lg, std, counters, TimeFieldFormat, inp, heap, held>>

\* the five assignments of Logger.Update, one at a time, on log or on lg;
\* Logger.Update returns after the last one, the global Update goes on to
\* SetStdLogger(log)
Update_Assign ==
  /\ Alive
  /\ upd.pc = "assign"
  /\ IF upd.tgt = "log"
       THEN /\ log' = AssignField(log, upd.new, UpdateOrder[upd.k])
            /\ UNCHANGED lg
       ELSE /\ lg' = AssignField(lg, upd.new, UpdateOrder[upd.k])
            /\ UNCHANGED log
  /\ IF upd.k < Len(UpdateOrder)
       THEN /\ upd' = [upd EXCEPT !.k = upd.k + 1]
            /\ last' = Running
       ELSE IF upd.op = "Update"
         THEN /\ upd' = [upd EXCEPT !.pc = "flags", !.k = 1,
                                    !.was = Replaced(upd.old, upd.new)]
              /\ last' = Running
         ELSE /\ upd' = [UpdIdle EXCEPT !.was = Replaced(upd.old, upd.new)]
              /\ last' = Finished
  /\ gor' = Settled
  /\ UNCHANGED <<std, counters, TimeFieldFormat, inp, heap, held>>

\* the Logger that SetStdLogger got: log in Init and Update, the caller's
\* Logger otherwise
Mirrored == IF upd.op \in {"Init", "Update"} THEN log ELSE upd.new

\* SetStdLogger: stdlog.SetFlags(0)
Std_SetFlags ==
  /\ Alive
  /\ upd.pc = "flags"
  /\ std' = [std EXCEPT !.flags = StdMirror(Mirrored, upd.fields).flags]
  /\ upd' = [upd EXCEPT !.pc = "output"]
  /\ last' = Running
  /\ gor' = Settled
  /\ UNCHANGED <<log, lg, counters, TimeFieldFormat, inp, heap, held>>

\* SetStdLogger: stdlog.SetOutput(l.WithFields(fields...))
Std_SetOutput ==
  LET m == StdMirror(Mirrored,
                     IF upd.op = "SetStdLogger" THEN upd.fields ELSE <<>>)
  IN
  /\ Alive
  /\ upd.pc = "output"
  /\ std' = [std EXCEPT !.out = m.out, !.mirrored = m.mirrored]
  /\ upd' = [upd EXCEPT !.pc = "relog"]
  /\ last' = Running
  /\ gor' = Settled
  /\ UNCHANGED <<log, lg, counters, TimeFieldFormat, inp, heap, held>>

\* SetStdLogger: log = l, and the configuring operation returns
Log_Reassign ==
  /\ Alive
  /\ upd.pc = "relog"
  /\ log' = Mirrored
  /\ upd' = [UpdIdle EXCEPT !.was = Replaced(log, Mirrored)]
  /\ last' = Finished
  /\ gor' = Settled
  /\ UNCHANGED <<lg, std, counters, TimeFieldFormat, inp, heap, held>>

\* the configuring goroutine is at a statement that writes the global log:
\* log = ... of Init, SetDefault and SetStdLogger, log.toIgnore = ... of
\* WithToIgnore, or the assignments of log.Update
Writing ==
  \/ upd.pc \in {"store", "relog"}
  \/ upd.pc = "assign" /\ upd.tgt = "log"

\* lg.Update is at its assignments
WritingLg == upd.pc = "assign" /\ upd.tgt = "lg"

\* the values of the variable that the statement under way replaces and
\* installs, or the value the variable holds when none is under way
Current(tgt) ==
  IF tgt = "lg" THEN (IF WritingLg THEN {upd.old, upd.new} ELSE {lg})
  ELSE IF ~Writing THEN {log}
  ELSE IF upd.pc = "assign" THEN {upd.old, upd.new}
  ELSE IF upd.pc = "relog" THEN {log, Mirrored}
  ELSE {log, upd.new}

\* the values of the variable that a copy begun h assignments ago can draw on
InView(tgt, h) == Current(tgt) \cup {upd.was[tgt][i] : i \in 1..h}

\* The fields of more than one word whose halves a copy can take from
\* different values of S: an error counter interface with a type and a nil
\* pointer, an ignore-list with a length and a nil array, a context with the
\* array of one value and the length of another.
Breakable(S) ==
  (IF \E a, b \in S : a.errCounter = Nil /\ b.errCounter # Nil
     THEN {"errCounter"} ELSE {})
  \cup (IF \E a, b \in S : a.toIgnore = <<>> /\ b.toIgnore # <<>>
          THEN {"toIgnore"} ELSE {})
  \cup (IF \E a, b \in S : a.l.ctx # b.l.ctx THEN {"ctx"} ELSE {})

\* The copies of a Logger variable a reader can get while the variable goes
\* through the values of S.  Neither side synchronises, so the copy is put
\* together word by word: within the backend handle (writer, level, context)
\* as well as between the fields.  broken names the field, if any, whose own
\* words come from different values; lg then holds the value that gave the
\* non-nil half.
Torn(S) ==
  LET copies == [l : [w : {a.l.w : a \in S}, level : {a.l.level : a \in S},
                      ctx : {a.l.ctx : a \in S}],
                 toIgnore : {a.toIgnore : a \in S},
                 errCounter : {a.errCounter : a \in S},
                 stackTrace : {a.stackTrace : a \in S},
                 inited : {a.inited : a \in S}]
  IN {[lg |-> c, broken |-> "none"] : c \in copies}
     \cup {x \in [lg : copies, broken : Breakable(S)] :
             /\ x.broken = "errCounter" => x.lg.errCounter # Nil
             /\ x.broken = "toIgnore" => x.lg.toIgnore # <<>>}

\* The copies a read of the global log can yield: the free functions copy
\* log without synchronisation, so a read that overlaps an assignment to log
\* yields a torn copy.
Observable(h) == Torn(InView("log", h))

\* the copies a read of lg can yield, against lg.Update
ObservableLg(h) == Torn(InView("lg", h))

\* how many earlier values of the variable the copy c holds words of, at
\* least
Staleness(tgt, c) ==
  CHOOSE h \in 0..Len(upd.was[tgt]) :
    /\ c \in Torn(InView(tgt, h))
    /\ \A g \in 0..(h - 1) : c \notin Torn(InView(tgt, g))

\* the process dies of a nil dereference after inc Inc calls
Crashed(inc, fields) ==
  [recs |-> <<>>, inc |-> inc, args |-> fields, fx |-> Fx(inc, <<>>),
   out |-> "crash", pval |-> <<>>]

\* the record of an event whose context bytes were read with a foreign length
Garbled(recs) ==
  [i \in 1..Len(recs) |-> [recs[i] EXCEPT !.fields = <<(<<"?", "?">>)>>]]

\* l.Info(msg, fields...) on the copy c: the ignore loop ranges over
\* toIgnore, the scan of the fields calls Inc on errCounter, the event is
\* written with the context
Copy_Info(c, msg, fields) ==
  LET r == Logger_Info(c.lg, msg, fields) IN
  IF c.broken = "toIgnore" THEN Crashed(0, fields)
  ELSE IF c.broken = "errCounter" /\ r.inc > 0 THEN Crashed(0, fields)
  ELSE IF c.broken = "ctx" THEN [r EXCEPT !.recs = Garbled(@)]
  ELSE r

\* l.Err(err, msg, fields...) on the copy c: err is counted first, then log
\* runs as for Info
Copy_Err(c, err, msg, fields) ==
  LET r == Logger_Err(c.lg, err, msg, fields)
      first == incErrorConter(c.lg)
  IN
  IF c.broken = "errCounter" THEN Crashed(0, fields)
  ELSE IF c.broken = "toIgnore" THEN Crashed(first, fields)
  ELSE IF c.broken = "ctx" THEN [r EXCEPT !.recs = Garbled(@)]
  ELSE r

\* a logging call made while the configuring goroutine is idle or between
\* two of its statements; l is the Logger it works on
Logged(op, l, err, msg, args, r, h, broken) ==
  /\ Alive
  /\ l.errCounter # Nil => counters[l.errCounter] < MaxCount
  /\ counters' = IF l.errCounter # Nil
                   THEN [counters EXCEPT ![l.errCounter] = @ + r.inc]
                   ELSE counters
  /\ last' = [op |-> op, lg |-> l, msg |-> msg, args |-> args,
              err |-> err, cfg |-> NoConfig, count0 |-> counters,
              recs |-> r.recs, inc |-> r.inc, argsAfter |-> r.args,
              fx |-> r.fx, out |-> r.out, pval |-> r.pval]
  /\ gor' = [LogIdle EXCEPT
               !.pc = IF r.out = "crash" THEN "crashed" ELSE "called",
               !.stale = h, !.broken = broken]
  /\ UNCHANGED <<log, lg, std, TimeFieldFormat, upd, inp, heap, held>>

\* Info(msg, fields...): log.Info(msg, fields...)
Info ==
  \E msg \in RegMsgs, fields \in RegArgs :
    \E c \in Observable(Len(upd.was.log)) :
      /\ gor.pc = "idle"
      /\ Logged("Info", c.lg, Nil, msg, fields, Copy_Info(c, msg, fields),
                Staleness("log", c), c.broken)

\* Err(err, msg, fields...): log.Err(err, msg, fields...)
Err ==
  \E msg \in {<<"m">>}, fields \in RegArgs :
    \E c \in Observable(Len(upd.was.log)) :
      /\ gor.pc = "idle"
      /\ Logged("Err", c.lg, "e0", msg, fields,
                Copy_Err(c, "e0", msg, fields), Staleness("log", c), c.broken)

\* lg.Info(msg, fields...)
Lg_Info ==
  \E msg \in RegMsgs, fields \in RegArgs :
    \E c \in ObservableLg(Len(upd.was.lg)) :
      /\ gor.pc = "idle"
      /\ Logged("Logger.Info", c.lg, Nil, msg, fields,
                Copy_Info(c, msg, fields), Staleness("lg", c), c.broken)

\* the logging goroutine is back from its call and goes on
Log_Return ==
  /\ gor.pc = "called"
  /\ gor' = LogIdle
  /\ last' = IF last.op \in LogOps THEN [NoOp EXCEPT !.op = "returned"]
             ELSE last
  /\ UNCHANGED <<log, lg, std, counters, TimeFieldFormat, upd, inp, heap,
                 held>>

\* Logger.Write(p) (logze.go:716): zerolog.Logger.Write takes one newline off
\* the end of p and logs the rest without level
Logger_Write(l, p) ==
  LET n == Len(p)
      text == IF n > 0 /\ p[n] = "\n" THEN SubSeq(p, 1, n - 1) ELSE p
      recs == EvMsg(NewEvent(l.l, ""), text)
  IN Returns([recs |-> recs, inc |-> 0, args |-> <<>>, fx |-> Fx(0, recs)])

\* stdlog.Print(msg), first half: the legacy package reads its flags and
\* formats the line, ended with a newline; the output is not locked yet
Std_Print ==
  \E msg \in RegMsgs :
    LET line == (IF std.flags = {} THEN <<>> ELSE <<"date time ">>) \o msg
                \o <<"\n">>
    IN
    /\ Alive
    /\ gor.pc = "idle"
    /\ gor' = [LogIdle EXCEPT !.pc = "line", !.msg = msg, !.line = line]
    /\ UNCHANGED <<log, lg, std, counters, TimeFieldFormat, upd, inp, last,
                   heap, held>>

\* stdlog.Print(msg), second half: the line is written to the output that is
\* set by now, the Logger that SetStdLogger installed or else stderr
Std_Write ==
  /\ gor.pc = "line"
  /\ IF std.mirrored
       THEN Logged("stdlog.Print", std.out, Nil, gor.msg, <<>>,
                   Logger_Write(std.out, gor.line), 0, "none")
       ELSE /\ Alive
            /\ gor' = [LogIdle EXCEPT !.pc = "called"]
            /\ last' = [NoOp EXCEPT !.op = "stdlog.Print", !.msg = gor.msg]
            /\ UNCHANGED <<log, lg, std, counters, TimeFieldFormat, upd, inp,
                           heap, held>>

Next ==
  \/ Init
  \/ Update_New
  \/ SetDefault
  \/ SetStdLogger
  \/ WithToIgnore
  \/ Log_Store
  \/ Update_Assign
  \/ Std_SetFlags
  \/ Std_SetOutput
  \/ Log_Reassign
  \/ Info
  \/ Err
  \/ Log_Return
  \/ Std_Print
  \/ Std_Write

InitRegistry ==
  /\ lg = NewConsoleJSON
  /\ inp = [msg |-> <<>>, args |-> <<>>]
  /\ InitRest
  /\ NoConfigsHeld
  /\ gor = LogIdle

Spec == InitRegistry /\ [][Next]_vars

\* The application's own Logger: one goroutine updates lg, another one logs
\* through it.
NextLg ==
  \/ Lg_Update
  \/ Update_Assign
  \/ Lg_Info
  \/ Log_Return

SpecLg == InitRegistry /\ [][NextLg]_vars

----------------------------------------------------------------------------
(* One operation that takes a level name: New, Init, Update and            *)
(* Logger.WithLevel, on level names of every kind.                         *)

LevelInputs ==
  LevelNames \cup {"", "panic", "INFO", "Warn", "3", "loud", "verbose"}

NameConfig(level) == Config(<<"b2">>, level, <<>>, Nil, FALSE, "")

Named(op, out) ==
  [NoOp EXCEPT !.op = op, !.lg = IF op \in {"Init", "Update"} THEN log ELSE lg,
               !.cfg = NameConfig(inp.level), !.out = out]

NameUnchanged == UNCHANGED <<counters, upd, inp, heap, held, gor>>

\* lg = New(cfg)
Name_New ==
  LET r == New(NameConfig(inp.level), <<>>) IN
  /\ last.op = "none"
  /\ TimeFieldFormat' = r.tff
  /\ lg' = IF r.ok THEN r.lg ELSE lg
  /\ last' = Named("New", IF r.ok THEN "return" ELSE "panic")
  /\ UNCHANGED <<log, std>>
  /\ NameUnchanged

\* lg = lg.WithLevel(level)
Name_WithLevel ==
  LET r == Logger_WithLevel(lg, inp.level) IN
  /\ last.op = "none"
  /\ lg' = IF r.ok THEN r.lg ELSE lg
  /\ last' = Named("WithLevel", IF r.ok THEN "return" ELSE "panic")
  /\ UNCHANGED <<log, std, TimeFieldFormat>>
  /\ NameUnchanged

\* Init(cfg)
Name_Init ==
  LET r == New(NameConfig(inp.level), <<>>) IN
  /\ last.op = "none"
  /\ TimeFieldFormat' = r.tff
  /\ log' = IF r.ok THEN r.lg ELSE log
  /\ std' = IF r.ok THEN StdMirror(r.lg, <<>>) ELSE std
  /\ last' = Named("Init", IF r.ok THEN "return" ELSE "panic")
  /\ UNCHANGED lg
  /\ NameUnchanged

\* Update(cfg), with no other goroutine running
Name_Update ==
  LET r == New(NameConfig(inp.level), <<>>) IN
  /\ last.op = "none"
  /\ TimeFieldFormat' = r.tff
  /\ log' = IF r.ok THEN Logger_Update(log, r.lg) ELSE log
  /\ std' = IF r.ok THEN StdMirror(Logger_Update(log, r.lg), <<>>) ELSE std
  /\ last' = Named("Update", IF r.ok THEN "return" ELSE "panic")
  /\ UNCHANGED lg
  /\ NameUnchanged

NextName ==
  \/ Name_New
  \/ Name_WithLevel
  \/ Name_Init
  \/ Name_Update

InitName ==
  /\ \E level \in {"debug", "error"} :
       lg = New(Config(<<"b1">>, level, <<>>, "c1", FALSE, ""), <<>>).lg
  /\ \E level \in LevelInputs :
       inp = [msg |-> <<>>, args |-> <<>>, level |-> level]
  /\ InitRest
  /\ NoConfigsHeld
  /\ NoGoroutines

SpecName == InitName /\ [][NextName]_vars

----------------------------------------------------------------------------
(* Goroutines that log concurrently on Loggers sharing a counter.  A call   *)
(* makes its Inc calls one by one; between them the other goroutine runs.  *)

\* calls one goroutine makes
MaxCalls == 2

\* a variant that adds to a copy of the counter (Inc with a value receiver)
Int64_Add_OnCopy(cur, d) == cur

\* atomic.Int64.Add(d): the value after one indivisible addition
Int64_Add(cur, d) == cur + d

\* Logger.WithToIgnore(toIgnore...)
Logger_WithToIgnore(l, toIgnore) == [l EXCEPT !.toIgnore = toIgnore]

\* Logger.WithErrorCounter(ec)
Logger_WithErrorCounter(l, ec) == [l EXCEPT !.errCounter = ec]

CounterConfigs ==
  { Config(<<"b1">>, "info", <<>>, "c1", FALSE, ""),
    Config(<<"b1">>, "info", <<>>, "c2", FALSE, "") }

GorUnchanged ==
  UNCHANGED <<log, lg, std, TimeFieldFormat, upd, inp, last, heap, held>>

\* the Inc calls of one logging call on the Logger l
IncCalls(l) ==
  { Logger_Err(l, "e0", <<"m">>, <<>>).inc,
    Logger_Err(l, "e0", <<"m">>, <<"k", "e1">>).inc,
    Logger_Info(l, <<"m">>, <<"k", "e1">>).inc,
    Logger_Info(l, <<"m">>, <<"k", "v">>).inc }

\* g calls an entry point of its Logger
Go_Call(g) ==
  LET p == gor.procs[g] IN
  \E n \in IncCalls(p.lg) :
    /\ p.pc = "idle"
    /\ p.calls < MaxCalls
    /\ gor' = [gor EXCEPT !.procs[g] =
                 [p EXCEPT !.pc = IF n > 0 THEN "inc" ELSE "idle",
                           !.c = p.lg.errCounter, !.todo = n,
                           !.calls = @ + 1]]
    /\ UNCHANGED counters
    /\ GorUnchanged

\* l.errCounter.Inc(err) in the call of g: c.Count.Add(1)
Go_Inc(g) ==
  LET p == gor.procs[g] IN
  /\ p.pc = "inc"
  /\ counters' = [counters EXCEPT ![p.c] = Int64_Add(@, 1)]
  /\ gor' = [gor EXCEPT !.incs[p.c] = @ + 1,
                        !.procs[g] =
                          [p EXCEPT !.todo = @ - 1,
                                    !.pc = IF p.todo = 1 THEN "idle"
                                           ELSE "inc"]]
  /\ GorUnchanged

\* g replaces its Logger by one of its With* copies
Go_With(g) ==
  LET p == gor.procs[g] IN
  \E l \in {Logger_WithToIgnore(p.lg, <<Ig>>),
             Logger_WithErrorCounter(p.lg, "c2")} :
    /\ p.pc = "idle"
    /\ gor' = [gor EXCEPT !.procs[g].lg = l]
    /\ UNCHANGED counters
    /\ GorUnchanged

\* g calls Update on its Logger
Go_Update(g) ==
  LET p == gor.procs[g] IN
  \E cfg \in CounterConfigs :
    /\ p.pc = "idle"
    /\ gor' = [gor EXCEPT !.procs[g].lg =
                 Logger_Update(p.lg, New(cfg, <<>>).lg)]
    /\ UNCHANGED counters
    /\ GorUnchanged

NextCounter ==
  \E g \in Goroutines :
    \/ Go_Call(g)
    \/ Go_Inc(g)
    \/ Go_With(g)
    \/ Go_Update(g)

\* two Loggers built with the same counter
InitCounter ==
  /\ gor = [NoGor EXCEPT
             !.procs = [g \in Goroutines |->
                          [NoGor.procs[g] EXCEPT
                             !.lg = New(Config(<<"b1">>, "info", <<>>, "c1",
                                               FALSE, ""), <<>>).lg]]]
  /\ lg = NewConsoleJSON
  /\ inp = [msg |-> <<>>, args |-> <<>>]
  /\ InitRest
  /\ NoConfigsHeld

SpecCounter == InitCounter /\ [][NextCounter]_vars

----------------------------------------------------------------------------
(* The same call made twice, on two Loggers built from one Config: lg takes *)
(* the first call and log the second.  The caller passes its slice with    *)
(* fields..., so the callee works on the caller's backing array; inp.same  *)
(* tells whether the second call gets that very slice or a fresh slice of   *)
(* the same contents.                                                      *)

\* the first call of a pair writes its outcome to inp.first and, for a shared
\* slice, leaves the slice as the callee left it; the second call is the
\* same entry point on log with what the caller holds then
Twice(op, err, r1, r2) ==
  \/ /\ inp.first.op = "none"
     /\ counters' = Incremented(lg, r1.inc)
     /\ inp' = [inp EXCEPT
                  !.args = IF inp.same THEN r1.args ELSE @,
                  !.first = [NoOp EXCEPT !.op = op, !.lg = lg,
                               !.msg = inp.msg, !.args = inp.args,
                               !.err = err, !.count0 = counters,
                               !.recs = r1.recs, !.inc = r1.inc,
                               !.argsAfter = r1.args, !.fx = r1.fx]]
     /\ UNCHANGED <<log, lg, std, TimeFieldFormat, upd, last, heap, held, gor>>
  \/ /\ inp.first.op = op /\ inp.first.err = err
     /\ last.op = "none"
     /\ counters' = Incremented(log, r2.inc)
     /\ last' = [NoOp EXCEPT !.op = op, !.lg = log,
                   !.msg = inp.msg, !.args = inp.args,
                   !.err = err, !.count0 = counters,
                   !.recs = r2.recs, !.inc = r2.inc,
                   !.argsAfter = r2.args, !.fx = r2.fx]
     /\ UNCHANGED <<log, lg, std, TimeFieldFormat, upd, inp, heap, held, gor>>

Twice_Info ==
  Twice("Info", Nil, Logger_Info(lg, inp.msg, inp.args),
        Logger_Info(log, inp.msg, inp.args))
Twice_Error ==
  Twice("Error", Nil, Logger_Error(lg, inp.msg, inp.args),
        Logger_Error(log, inp.msg, inp.args))
Twice_Infof ==
  Twice("Infof", Nil, Logger_Infof(lg, inp.msg, inp.args),
        Logger_Infof(log, inp.msg, inp.args))
Twice_Err ==
  \E err \in {Nil, "e0"} :
    Twice("Err", err, Logger_Err(lg, err, inp.msg, inp.args),
          Logger_Err(log, err, inp.msg, inp.args))

\* l1.Info(msg, f...) and then l2.Infof(msg, f2...) with a fresh slice f2 of
\* the contents f had
Twice_InfoThenInfof ==
  LET r2 == Logger_Infof(log, inp.msg, inp.args) IN
  /\ inp.first.op = "Info" /\ ~inp.same
  /\ last.op = "none"
  /\ counters' = Incremented(log, r2.inc)
  /\ last' = [NoOp EXCEPT !.op = "Infof", !.lg = log,
                !.msg = inp.msg, !.args = inp.args,
                !.count0 = counters,
                !.recs = r2.recs, !.inc = r2.inc,
                !.argsAfter = r2.args, !.fx = r2.fx]
  /\ UNCHANGED <<log, lg, std, TimeFieldFormat, upd, inp, heap, held, gor>>

NextTwice ==
  \/ Twice_Info
  \/ Twice_Error
  \/ Twice_Infof
  \/ Twice_Err
  \/ Twice_InfoThenInfof

InitTwice ==
  /\ \E cfg \in FieldConfigs :
       /\ lg = New(cfg, <<>>).lg
       /\ log = New(cfg, <<>>).lg
  /\ \E msg \in {<<"m">>, <<"m", "%", "v">>},
        args \in SeqsUpTo(ArgVals, MaxArgs), same \in BOOLEAN :
       inp = [msg |-> msg, args |-> args, same |-> same, first |-> NoOp]
  /\ std = StdInit
  /\ counters = [c \in Counters |-> 0]
  /\ TimeFieldFormat = RFC3339
  /\ upd = UpdIdle
  /\ last = NoOp
  /\ NoConfigsHeld
  /\ NoGoroutines

SpecTwice == InitTwice /\ [][NextTwice]_vars

----------------------------------------------------------------------------
(* The ignore-list and the caller's slice.  The caller holds a []string,   *)
(* inp.list, and passes it with list...: the callee's parameter is that    *)
(* very slice.  inp.ref is the slice the toIgnore field of lg holds;       *)
(* lg.toIgnore shows the elements of that slice.                           *)

IgnEntries == {Ig, <<"m">>, <<"k">>}

\* lg = New(NewConfig(w).WithToIgnore(list...)): c.ToIgnore = toIgnore, and
\* New stores cfg.ToIgnore in the Logger
Ign_Config ==
  /\ inp.pc = "start"
  /\ lg' = New(Config(<<"b1">>, "info", Elems(heap, inp.list), "c1", FALSE, ""),
               <<>>).lg
  /\ inp' = [inp EXCEPT !.pc = "built", !.ref = inp.list]
  /\ UNCHANGED <<log, std, counters, TimeFieldFormat, upd, last, heap, held,
                 gor>>

\* lg = lg.WithToIgnore(list...): l.toIgnore = toIgnore
Ign_Logger ==
  /\ inp.pc = "start"
  /\ lg' = Logger_WithToIgnore(lg, Elems(heap, inp.list))
  /\ inp' = [inp EXCEPT !.pc = "built", !.ref = inp.list]
  /\ UNCHANGED <<log, std, counters, TimeFieldFormat, upd, last, heap, held,
                 gor>>

\* lg = lg.WithToIgnore(e): the entries written out in the call make a
\* slice of their own
Ign_Literal ==
  \E e \in IgnEntries :
    LET r == Variadic(heap, <<e>>) IN
    /\ inp.pc = "start"
    /\ heap' = r.heap
    /\ lg' = Logger_WithToIgnore(lg, Elems(r.heap, r.s))
    /\ inp' = [inp EXCEPT !.pc = "built", !.ref = r.s]
    /\ UNCHANGED <<log, std, counters, TimeFieldFormat, upd, last, held, gor>>

\* list[i] = e in the caller's code, after the Logger was built
Ign_Write ==
  \E i \in 1..inp.list.len, e \in IgnEntries :
    LET h == [heap EXCEPT ![inp.list.arr][i] = e] IN
    /\ inp.pc = "built"
    /\ last.op = "none"
    /\ heap' = h
    /\ lg' = [lg EXCEPT !.toIgnore = Elems(h, inp.ref)]
    /\ inp' = [inp EXCEPT !.pc = "written"]
    /\ UNCHANGED <<log, std, counters, TimeFieldFormat, upd, last, held, gor>>

Ign_Info == inp.pc # "start" /\ Call_Info

Ign_Infof == inp.pc # "start" /\ Call_Infof

NextIgnore ==
  \/ Ign_Config
  \/ Ign_Logger
  \/ Ign_Literal
  \/ Ign_Write
  \/ Ign_Info
  \/ Ign_Infof

InitIgnore ==
  /\ \E list \in SeqsUpTo({Ig, <<"m">>}, 2) \ {<<>>} :
       /\ heap = <<list>>
       /\ \E msg \in {<<"m">>, Ig, <<"k">>, <<"m", "k">>} :
            inp = [msg |-> msg, args |-> <<>>, pc |-> "start",
                   list |-> [arr |-> 1, len |-> Len(list), cap |-> Len(list)],
                   list0 |-> list, ref |-> NilSlice]
  /\ \E ti \in {<<>>, <<Ig>>} :
       lg = New(Config(<<"b1">>, "trace", ti, Nil, FALSE, ""), <<>>).lg
  /\ InitRest
  /\ held = NoHeld
  /\ NoGoroutines

SpecIgnore == InitIgnore /\ [][NextIgnore]_vars

----------------------------------------------------------------------------
(* A Logger taken from the global one, or built next to it, and what later  *)
(* configuring of the global Logger does to it.  lg is the Logger the      *)
(* application holds; inp.snap is lg as it was obtained, inp.g0 the global  *)
(* Logger at that moment, inp.tff0 the time format lg was built with.      *)

GlobConfigs ==
  { Config(<<"b1">>, "info", <<>>, Nil, FALSE, ""),
    Config(<<"b2">>, "debug", <<Ig>>, "c1", TRUE, "unix") }

\* the application obtains l by the operation by, which leaves g as the
\* global Logger
Obtained(by, l, g, tff) ==
  /\ inp.pc = "start"
  /\ lg' = l
  /\ log' = g
  /\ TimeFieldFormat' = tff
  /\ inp' = [inp EXCEPT !.pc = "held", !.by = by, !.snap = l, !.g0 = log,
                        !.tff0 = tff]
  /\ UNCHANGED <<std, counters, upd, last, heap, held, gor>>

\* lg := Default()
G_Default == Obtained("Default", log, log, TimeFieldFormat)

\* lg := WithFields(fields...), and With(fields...) which forwards to it
G_WithFields ==
  Obtained("WithFields", Logger_WithFields(log, <<"k", "v">>), log,
           TimeFieldFormat)

\* lg := WithLevel(level)
G_WithLevel ==
  Obtained("WithLevel", Logger_WithLevel(log, "warn").lg, log,
           TimeFieldFormat)

\* lg := WithErrorCounter(ec), and WithSimpleErrorCounter() with a new counter
G_WithErrorCounter ==
  Obtained("WithErrorCounter", Logger_WithErrorCounter(log, "c2"), log,
           TimeFieldFormat)

\* lg := WithToIgnore(toIgnore...): log.toIgnore = toIgnore; return log
G_WithToIgnore ==
  Obtained("WithToIgnore", Logger_WithToIgnore(log, <<(<<"m">>)>>),
           Logger_WithToIgnore(log, <<(<<"m">>)>>), TimeFieldFormat)

\* lg := New(cfg)
G_New ==
  \E cfg \in GlobConfigs :
    Obtained("New", New(cfg, <<>>).lg, log, New(cfg, <<>>).tff)

\* Init(cfg) once the application holds lg
G_Init ==
  \E cfg \in GlobConfigs :
    LET r == New(cfg, <<>>) IN
    /\ inp.pc = "held"
    /\ last.op = "none"
    /\ TimeFieldFormat' = r.tff
    /\ log' = r.lg
    /\ std' = StdMirror(r.lg, <<>>)
    /\ inp' = [inp EXCEPT !.pc = "changed", !.via = "Init"]
    /\ UNCHANGED <<lg, counters, upd, last, heap, held, gor>>

\* a variant for a Logger that is handed out by reference: the holder's
\* Logger is the one that is updated
G_Update_ByReference ==
  \E cfg \in GlobConfigs :
    LET r == New(cfg, <<>>) IN
    /\ inp.pc = "held"
    /\ last.op = "none"
    /\ TimeFieldFormat' = r.tff
    /\ log' = Logger_Update(log, r.lg)
    /\ lg' = Logger_Update(lg, r.lg)
    /\ std' = StdMirror(Logger_Update(log, r.lg), <<>>)
    /\ inp' = [inp EXCEPT !.pc = "changed", !.via = "Update"]
    /\ UNCHANGED <<counters, upd, last, heap, held, gor>>

\* Update(cfg) once the application holds lg, no other goroutine running
G_Update ==
  \E cfg \in GlobConfigs :
    LET r == New(cfg, <<>>) IN
    /\ inp.pc = "held"
    /\ last.op = "none"
    /\ TimeFieldFormat' = r.tff
    /\ log' = Logger_Update(log, r.lg)
    /\ std' = StdMirror(Logger_Update(log, r.lg), <<>>)
    /\ inp' = [inp EXCEPT !.pc = "changed", !.via = "Update"]
    /\ UNCHANGED <<lg, counters, upd, last, heap, held, gor>>

\* a call of Info on l; the timestamp of a record is written in the format
\* zerolog.TimeFieldFormat holds when the record is written
G_Logged(op, l) ==
  \E msg \in RegMsgs \cup {<<"k">>} :
    LET r == Logger_Info(l, msg, <<>>) IN
    /\ inp.pc # "start"
    /\ last.op = "none"
    /\ last' = [tff |-> TimeFieldFormat]
                 @@ [NoOp EXCEPT !.op = op, !.lg = l, !.msg = msg,
                                 !.recs = r.recs, !.inc = r.inc, !.fx = r.fx]
    /\ UNCHANGED <<log, lg, std, counters, TimeFieldFormat, upd, inp, heap,
                   held, gor>>

\* Info(msg)
G_Info == G_Logged("Info", log)

\* lg.Info(msg)
G_LgInfo == G_Logged("Logger.Info", lg)

NextGlobal ==
  \/ G_Default
  \/ G_WithFields
  \/ G_WithLevel
  \/ G_WithErrorCounter
  \/ G_WithToIgnore
  \/ G_New
  \/ G_Init
  \/ G_Update
  \/ G_Info
  \/ G_LgInfo

\* the program has called Init(cfg) and holds no Logger yet
InitGlobal ==
  /\ \E cfg \in GlobConfigs :
       /\ log = New(cfg, <<>>).lg
       /\ std = StdMirror(New(cfg, <<>>).lg, <<>>)
       /\ TimeFieldFormat = New(cfg, <<>>).tff
  /\ lg = Nop
  /\ inp = [msg |-> <<>>, args |-> <<>>, pc |-> "start", by |-> "none",
            via |-> "none", snap |-> Nop, g0 |-> Nop, tff0 |-> RFC3339]
  /\ counters = [c \in Counters |-> 0]
  /\ upd = UpdIdle
  /\ last = NoOp
  /\ NoConfigsHeld
  /\ NoGoroutines

SpecGlobal == InitGlobal /\ [][NextGlobal]_vars

----------------------------------------------------------------------------
(* Vocabulary of the properties. *)

LeveledOps == {"Trace", "Debug", "Info", "Warn", "Error"}
FormattedOps == {"Tracef", "Debugf", "Infof", "Warnf", "Errorf", "Printf"}
MsgOps == LeveledOps \cup FormattedOps \cup {"Err", "Fatalf", "Panicf"}

\* the record level an entry point asks for
OpLevel(op) ==
  CASE op \in {"Trace", "Tracef"} -> "trace"
    [] op \in {"Debug", "Debugf"} -> "debug"
    [] op \in {"Info", "Infof"} -> "info"
    [] op \in {"Warn", "Warnf"} -> "warn"
    [] op \in {"Error", "Errorf", "Err", "ErrStack"} -> "error"
    [] op \in {"Print", "Printf", "Println", "PrintStack"} -> ""
    [] OTHER -> "fatal"

\* the message of the call: the msg argument, or the text made of v...
CallMsg ==
  IF last.op \in MsgOps \cup {"Printf"} THEN last.msg
  ELSE IF last.op = "ErrStack" THEN StackText(last.err)
  ELSE IF last.op = "PrintStack" THEN <<"stack">>
  ELSE IF last.op \in {"Fatalln", "Panicln", "Println"} THEN Sprintln(last.args)
  ELSE Sprint(last.args)

HasPair(rec, k, v) == \E i \in 1..Len(rec.fields) : rec.fields[i] = <<k, v>>

\* position of a level in the order trace < debug < ... < disabled
LevelIdx(name) == CHOOSE i \in 1..Len(Levels) : Levels[i] = name

\* the counter of the Logger the call ran on went up by n
CountedBy(n) ==
  /\ last.lg.errCounter # Nil
  /\ counters[last.lg.errCounter] = last.count0[last.lg.errCounter] + n
  /\ \A c \in Counters \ {last.lg.errCounter} : counters[c] = last.count0[c]

CounterUntouched == counters = last.count0

\* keys are strings: the elements at the odd places of a field list
StringKeys(f) == \A i \in 1..Len(f) : i % 2 = 1 => IsString(f[i])

----------------------------------------------------------------------------
(* Properties of a single call. *)

NFormats == CountPercent(last.msg)

\* C1 (as claimed): in a formatted call whose message has N markers,
\* 1 <= N <= len(args), every record's message is the format rendered with the
\* first N arguments as the caller passed them, and the pairs of the other
\* arguments (those that are not the extracted error) are fields.
C1_FirstNSubstituted ==
  (/\ last.op \in FormattedOps
   /\ NFormats >= 1 /\ NFormats <= Len(last.args)
   /\ ~Ignored(last.lg, last.msg))
  => \A i \in 1..Len(last.recs) :
       /\ last.recs[i].msg = Sprintf(last.msg, SubSeq(last.args, 1, NFormats))
       /\ LET rest == SubSeq(last.args, NFormats + 1, Len(last.args))
          IN \A p \in 1..Len(rest) :
               (p % 2 = 1 /\ p < Len(rest) /\ StringKeys(rest)
                  /\ ~IsError(rest[p + 1]))
               => HasPair(last.recs[i], rest[p], rest[p + 1])

\* C2: in a formatted call whose message has no marker and whose argument
\* list is not empty, every record carries the message unchanged and nothing
\* is substituted; the argument list goes to the backend as the field list
\* (an error value in it becomes the record's error attribute).
C2_NoMarkerAllFields ==
  (/\ last.op \in FormattedOps
   /\ NFormats = 0 /\ Len(last.args) > 0
   /\ ~Ignored(last.lg, last.msg))
  => /\ Len(last.recs) = IF Should(last.lg.l, OpLevel(last.op))
                           THEN Len(Written(last.lg.l.w)) ELSE 0
     /\ \A i \in 1..Len(last.recs) :
          /\ last.recs[i].msg = last.msg
          /\ FirstError(last.args) = 0
               => last.recs[i].fields = PairsFrom(last.args, 1)
          /\ FirstError(last.args) # 0
               => last.recs[i].errs = <<last.args[FirstError(last.args)]>>

C2_Witness ==
  /\ last.op = "Infof" /\ last.msg = <<"m">> /\ last.args = <<"k", "v", "v", "k">>
  /\ Len(last.recs) = 1
  /\ last.recs[1].fields = <<(<<"k", "v">>), (<<"v", "k">>)>>

\* C3 (as claimed): a call whose message contains an ignore-list entry emits
\* no record and leaves the error counter alone, for every entry point.
C3_IgnoredNoEffect ==
  (last.op # "none" /\ Ignored(last.lg, CallMsg))
  => (last.recs = <<>> /\ CounterUntouched)

\* C4 (as claimed): a leveled call that is neither suppressed nor filtered,
\* with a field list of even length >= 2, emits a record with the message and
\* with every (key, value) pair of the list.
C4_AllPairsPresent ==
  (/\ last.op \in LeveledOps
   /\ Len(last.args) >= 2 /\ Len(last.args) % 2 = 0 /\ StringKeys(last.args)
   /\ ~Ignored(last.lg, last.msg)
   /\ Should(last.lg.l, OpLevel(last.op)))
  => /\ Len(last.recs) = 1
     /\ last.recs[1].msg = last.msg
     /\ \A p \in 1..Len(last.args) :
          p % 2 = 1 => HasPair(last.recs[1], last.args[p], last.args[p + 1])

\* the field list as the record gets it: as passed when it holds no error or
\* when its first error is its last element, and otherwise without the first
\* error and the element before it, the elements after them moved up and the
\* last two elements of the list once more at the end
FieldsForwarded(f) ==
  LET j == FirstError(f)
      n == Len(f)
  IN IF j = 0 \/ j = n THEN f
     ELSE SubSeq(f, 1, j - 2) \o SubSeq(f, j + 1, n) \o SubSeq(f, n - 1, n)

\* C4 (amended): ... with the error attribute set to the first error value of
\* the list, and with these fields after those of the Logger: every (key,
\* value) pair of the list in order, where the pair that holds the first error
\* value stays in its place when it is the last pair, and otherwise is left
\* out while the last pair is written a second time at the end.
C4_PairsButFirstError ==
  (/\ last.op \in LeveledOps
   /\ Len(last.args) >= 2 /\ Len(last.args) % 2 = 0 /\ StringKeys(last.args)
   /\ ~Ignored(last.lg, last.msg)
   /\ Should(last.lg.l, OpLevel(last.op)))
  => LET f == last.args
         j == FirstError(f)
         g == FieldsForwarded(f)
     IN
     /\ Len(last.recs) = 1
     /\ last.recs[1].msg = last.msg
     /\ last.recs[1].level = OpLevel(last.op)
     /\ \A p \in 1..Len(f) :
          (p % 2 = 1 /\ p + 1 # j) => HasPair(last.recs[1], f[p], f[p + 1])
     /\ j # 0 => last.recs[1].errs = <<f[j]>>
     /\ j = 0 => last.recs[1].errs = <<>>
     /\ j = Len(f) => HasPair(last.recs[1], f[j - 1], f[j])
     /\ last.recs[1].fields =
          last.lg.l.ctx
          \o [i \in 1..(Len(g) \div 2) |-> <<g[2 * i - 1], g[2 * i]>>]

\* the first error is the value of the last pair: the pair stays a field
\* beside the error attribute
C4_Witness ==
  /\ last.op = "Info" /\ last.msg = <<"m">>
  /\ last.args = <<"k", "v", "k", "e1">>
  /\ Len(last.recs) = 1
  /\ last.recs[1].errs = <<"e1">>
  /\ last.recs[1].fields = <<(<<"k", "v">>), (<<"k", "e1">>)>>

\* the first error is the value of a pair that others follow: the pair is
\* left out and the last pair is written twice
C4_WitnessMiddle ==
  /\ last.op = "Info" /\ last.msg = <<"m">>
  /\ last.args = <<"k", "v", "v", "e1", "v", "k">>
  /\ Len(last.recs) = 1
  /\ last.recs[1].errs = <<"e1">>
  /\ last.recs[1].fields = <<(<<"k", "v">>), (<<"v", "k">>), (<<"v", "k">>)>>
  /\ ~HasPair(last.recs[1], "v", "e1")

\* a field list of two elements or more with exactly one error value, at a
\* value position, as in [k1, v1, "error", errX, k2, v2]
OneErrorAtValue(f) ==
  /\ Len(f) >= 2
  /\ FirstError(f) # 0 /\ FirstError(f) % 2 = 0
  /\ \A i \in 1..Len(f) : IsError(f[i]) => i = FirstError(f)

\* C5: a leveled call whose field list holds one error value errX at a value
\* position increments the counter exactly once, and its record has errX as
\* the error attribute and every other pair of the list.
C5_ErrorExtraction ==
  (/\ last.op \in LeveledOps
   /\ OneErrorAtValue(last.args)
   /\ ~Ignored(last.lg, last.msg))
  => /\ IF last.lg.errCounter # Nil THEN CountedBy(1) ELSE CounterUntouched
     /\ Len(last.recs) = IF Should(last.lg.l, OpLevel(last.op)) THEN 1 ELSE 0
     /\ \A i \in 1..Len(last.recs) :
          /\ last.recs[i].errs = <<last.args[FirstError(last.args)]>>
          /\ \A p \in 1..(Len(last.args) - 1) :
               (p % 2 = 1 /\ p + 1 # FirstError(last.args))
               => HasPair(last.recs[i], last.args[p], last.args[p + 1])

C5_Witness ==
  /\ last.op = "Error" /\ last.args = <<"k", "v", "k", "e1", "v", "k">>
  /\ Len(last.recs) = 1 /\ last.recs[1].errs = <<"e1">>
  /\ counters["c1"] = 1

\* C6 (as claimed): Err with a non-nil error and a message that is not
\* suppressed increments the counter exactly once, whatever the field list.
C6_ErrCountsOnce ==
  (/\ last.op = "Err" /\ last.err # Nil
   /\ ~Ignored(last.lg, last.msg)
   /\ last.lg.errCounter # Nil)
  => CountedBy(1)

\* C6 (amended): ... increments the counter exactly once when the field list
\* has fewer than two elements or holds no error value, and exactly twice
\* when a field list of two or more elements holds an error value.
C6_ErrCountsOncePerError ==
  (/\ last.op = "Err" /\ last.err # Nil
   /\ ~Ignored(last.lg, last.msg)
   /\ last.lg.errCounter # Nil)
  => IF Len(last.args) >= 2 /\ \E i \in 1..Len(last.args) : IsError(last.args[i])
       THEN CountedBy(2)
       ELSE CountedBy(1)

C6_Witness ==
  /\ last.op = "Err" /\ last.err = "e0" /\ last.msg = <<"m">>
  /\ last.args = <<"k", "v">>
  /\ counters["c1"] = 1
  /\ Len(last.recs) = 1 /\ last.recs[1].errs = <<"e0">>

\* C7: on a Logger built with minimum level L and an empty ignore-list, a
\* leveled call emits exactly one record, with its level and (plain calls)
\* its message, when its level is at least L in the order trace < debug <
\* info < warn < error < fatal < disabled, and no record otherwise.
C7_LevelFilter ==
  (/\ last.op \in LeveledOps \cup (FormattedOps \ {"Printf"})
   /\ last.lg.toIgnore = <<>>)
  => IF LevelIdx(OpLevel(last.op)) >= LevelIdx(last.lg.l.level)
       THEN /\ Len(last.recs) = 1
            /\ last.recs[1].level = OpLevel(last.op)
            /\ last.op \in LeveledOps => last.recs[1].msg = last.msg
       ELSE last.recs = <<>>

C7_Witness ==
  /\ last.op = "Warn" /\ last.lg.l.level = "warn" /\ last.msg = <<"m">>
  /\ Len(last.recs) = 1 /\ last.recs[1].level = "warn"
  /\ last.recs[1].msg = <<"m">>

C7_WitnessFiltered ==
  last.op = "Debug" /\ last.lg.l.level = "warn" /\ last.recs = <<>>

----------------------------------------------------------------------------
(* Properties of Logger.Update and of the global registry. *)

FreeOps == {"Info", "Err"}

\* C8: once lg.Update(B, fields...) has returned, lg is the Logger that
\* New(B, fields...) returns, field by field, and the records of the next call
\* on lg, made after the return, are those of that Logger: they land in the
\* sinks of B only.
C8_UpdateLikeNew ==
  [][(last.op = "Logger.Update" /\ last.out = "return")
     => LET b == New(last.cfg, last.args).lg IN
        /\ lg = b
        /\ (last'.op = "Logger.Info" /\ gor'.stale = 0)
             => /\ last'.out = "return"
                /\ last'.recs = Logger_Info(b, last'.msg, last'.args).recs
                /\ \A i \in 1..Len(last'.recs) :
                     \E j \in 1..Len(last.cfg.Writers) :
                       last'.recs[i].sink = last.cfg.Writers[j]]_vars

C8_Witness ==
  /\ last.op = "Logger.Info" /\ last.msg = <<"m">>
  /\ lg = New(Config(<<"b2">>, "debug", <<Ig>>, "c1", FALSE, "unix"),
              <<"k", "v">>).lg
  /\ last.lg = lg /\ gor.stale = 0
  /\ Len(last.recs) = 1 /\ last.recs[1].sink = "b2"

\* C9: when Init or the global Update has returned, the legacy log package
\* writes through the Logger now installed as the global one, and its flags
\* are cleared.
C9_StdMirrorsInstalled ==
  (last.op \in {"Init", "Update"} /\ last.out = "return")
  => /\ std.mirrored
     /\ std.out = log
     /\ std.flags = {}

C9_Witness ==
  /\ last.op = "Update" /\ last.out = "return"
  /\ log.l.w = <<"b2">>
  /\ std.out = log /\ std.flags = {}

\* C10 (as claimed): a free-function call made while the global Update runs
\* works on the complete old Logger or on the complete new one.
C10_NeverTorn ==
  (upd.op = "Update" /\ upd.pc = "assign" /\ last.op \in FreeOps)
  => last.lg \in {upd.old, upd.new}

\* C10 (amended): a free-function call that begins and ends while no
\* operation is writing the global Logger works on the complete installed
\* Logger and returns, and the first call made after Update has returned works
\* on the complete new Logger.
C10_CompleteOutsideUpdate ==
  [][/\ (~Writing /\ last'.op \in FreeOps /\ gor'.stale = 0)
          => /\ last'.lg = log
             /\ gor'.broken = "none"
             /\ last'.out = "return"
     /\ (/\ last.op = "Update" /\ last.out = "return"
         /\ last'.op \in FreeOps /\ gor'.stale = 0)
          => last'.lg = last.lg]_vars

\* a call made during Update that works on the new backend and the old
\* counter
C10_Witness ==
  /\ upd.op = "Update" /\ upd.pc = "assign" /\ last.op = "Err"
  /\ upd.old.errCounter # upd.new.errCounter
  /\ last.lg.l = upd.new.l
  /\ last.lg.errCounter = upd.old.errCounter
  /\ Len(last.recs) = 1

----------------------------------------------------------------------------
(* Properties of the Config builders. *)

\* C11 (as claimed): once c1 := base.WithWriter(a) and then a second
\* derivation c2 from the same base have been made, base's writers are what
\* they were, c1's writers are base's followed by a, and c2 is base with the
\* one change asked for.
C11_WithCopies ==
  held.pc = "done"
  => /\ Elems(heap, held.base.Writers) = held.base0
     /\ Elems(heap, held.c1.Writers) = held.base0 \o <<"a">>
     /\ held.c1.Level = held.base.Level

----------------------------------------------------------------------------
(* Properties of the level names. *)

NameOps == {"New", "Init", "Update", "WithLevel"}

\* the Logger the operation has produced
Produced == IF last.op \in {"Init", "Update"} THEN log ELSE lg

\* C12 (as claimed): an operation that takes a level name panics exactly
\* when the name is neither empty nor one of trace, debug, info, warn, error,
\* fatal, disabled.
C12_OnlySevenNames ==
  last.op \in NameOps
  => (last.out = "panic" <=> inp.level \notin LevelNames \cup {""})

\* the names the backend's parser takes besides the seven and the empty one
AlsoParsed == {"panic", "INFO", "Warn", "3"}

\* C12 (amended): it panics exactly when the backend's parser rejects the
\* name, and the parser takes also "panic", the names in other letter cases
\* and decimal integers; when it panics no Logger is produced; the empty name
\* gives info in New, Init and Update and no change in WithLevel; one of the
\* seven names becomes the minimum level.
C12_UnparseablePanics ==
  last.op \in NameOps
  => /\ last.out = "panic"
          <=> inp.level \notin LevelNames \cup {""} \cup AlsoParsed
     /\ last.out = "panic" => Produced = last.lg
     /\ (last.out = "return" /\ inp.level = "")
          => IF last.op = "WithLevel" THEN lg = last.lg
             ELSE Produced.l.level = "info"
     /\ (last.out = "return" /\ inp.level \in LevelNames)
          => Produced.l.level = inp.level

C12_Witness ==
  /\ last.op = "New" /\ inp.level = "panic" /\ last.out = "return"
  /\ lg.l.level = "panic" /\ lg.l.w = <<"b2">>

----------------------------------------------------------------------------
(* Properties of the fatal and panic entry points. *)

FatalOps == {"Fatal", "Fatalf", "Fatalln", "Panic", "Panicf", "Panicln"}

\* how the entry point ends
Ending == IF last.op \in {"Fatal", "Fatalf", "Fatalln"} THEN "exit" ELSE "panic"

\* a fatal or panic call on a Logger with a counter, whose record is written
FatalEmitted ==
  /\ last.op \in FatalOps
  /\ last.lg.errCounter # Nil
  /\ ~Ignored(last.lg, CallMsg)
  /\ Len(last.recs) > 0

\* C13 (as claimed): the effects of a fatal or panic call come in the order
\* record, one counter increment, termination or panic.
C13_EmitThenCount ==
  FatalEmitted => last.fx = <<"emit", "inc", Ending>>

\* C13 (amended): the counter is incremented first, then the record is
\* emitted, then the process is terminated or the panic raised; Fatalf and
\* Panicf count a second time, before the record, when their argument list has
\* two or more elements and one of them is an error value.
C13_CountThenEmit ==
  FatalEmitted
  => LET again == IF /\ last.op \in {"Fatalf", "Panicf"}
                      /\ Len(last.args) >= 2
                      /\ FirstError(last.args) # 0
                     THEN <<"inc">> ELSE <<>>
     IN /\ last.fx = <<"inc">> \o again \o <<"emit", Ending>>
        /\ last.out = Ending
        /\ CountedBy(1 + Len(again))

C13_Witness ==
  /\ last.op = "Panic" /\ last.args = <<"k">>
  /\ last.fx = <<"inc", "emit", "panic">>
  /\ counters["c1"] = 1 /\ Len(last.recs) = 1

\* C14 (as claimed): the record of Panic, Panicf and Panicln has the text of
\* the panic value as its message, and the record of Fatalf and Panicf has
\* the format rendered with the arguments as its message.
C14_MessageIsPanicValue ==
  \A i \in 1..Len(last.recs) :
    /\ last.op \in {"Panic", "Panicf", "Panicln"}
         => last.recs[i].msg = last.pval
    /\ last.op \in {"Fatalf", "Panicf"}
         => last.recs[i].msg = Sprintf(last.msg, last.args)

----------------------------------------------------------------------------
(* Further properties of a single call. *)

NoErrorIn(f) == \A i \in 1..Len(f) : ~IsError(f[i])

\* C15: Err(nil, msg, fields...) with a message that is not suppressed, the
\* error level enabled and fields that are ordinary pairs returns normally
\* and emits one error-level record (to each writer) with the message and
\* the pairs of the field list and without an error attribute; the counter
\* is left alone.
C15_NilErrorLogged ==
  (/\ last.op = "Err" /\ last.err = Nil
   /\ ~Ignored(last.lg, last.msg)
   /\ Should(last.lg.l, "error")
   /\ NoErrorIn(last.args))
  => /\ last.out = "return"
     /\ Len(last.recs) = Len(Written(last.lg.l.w))
     /\ \A i \in 1..Len(last.recs) :
          /\ last.recs[i].level = "error"
          /\ last.recs[i].msg = last.msg
          /\ last.recs[i].errs = <<>>
          /\ last.recs[i].fields
               = IF Len(last.args) > 1 THEN PairsFrom(last.args, 1) ELSE <<>>
     /\ CounterUntouched

C15_Witness ==
  /\ last.op = "Err" /\ last.err = Nil /\ last.msg = <<"m">>
  /\ last.args = <<"k", "v">>
  /\ Len(last.recs) = 1 /\ last.recs[1].errs = <<>>
  /\ HasPair(last.recs[1], "k", "v")

----------------------------------------------------------------------------
(* Properties of the error counter. *)

\* C16: under every interleaving of the goroutines the count of every
\* SimpleErrorCounter equals the number of Inc calls made on it, and no step
\* (an Inc, a With* copy, an Update) makes it smaller.
C16_CountIsIncCalls ==
  [][\A c \in Counters :
       /\ counters'[c] = gor'.incs[c]
       /\ counters'[c] >= counters[c]]_vars

C16_Witness ==
  /\ counters["c1"] >= 3
  /\ gor.procs["g1"].calls >= 1 /\ gor.procs["g2"].calls >= 1
  /\ gor.procs["g1"].lg.errCounter = "c2"
  /\ gor.procs["g2"].pc = "inc"

\* a call on a Logger with a counter whose message is not suppressed
CountingCall ==
  /\ last.op \in LeveledOps \cup {"Err"}
  /\ last.lg.errCounter # Nil
  /\ ~Ignored(last.lg, last.msg)

\* C17 (as claimed): such a call that carries an error, as the err of Err or
\* anywhere in the field list of a leveled call, increments the counter,
\* whether or not a record is written.
C17_ErrorAlwaysCounted ==
  (/\ CountingCall
   /\ \/ last.op = "Err" /\ last.err # Nil
      \/ \E i \in 1..Len(last.args) : IsError(last.args[i]))
  => counters[last.lg.errCounter] > last.count0[last.lg.errCounter]

\* C17 (amended): the counter goes up by one for the non-nil err of Err and
\* by one for the first error of a field list of two or more elements,
\* whether or not a record is written; a field list of one element is not
\* scanned.
C17_CountedWhenFiltered ==
  CountingCall
  => CountedBy((IF last.op = "Err" /\ last.err # Nil THEN 1 ELSE 0)
               + (IF Len(last.args) >= 2 /\ FirstError(last.args) # 0
                    THEN 1 ELSE 0))

C17_Witness ==
  /\ last.op = "Trace" /\ last.lg.l.level = "debug"
  /\ last.msg = <<"m">> /\ last.args = <<"k", "e1">>
  /\ last.recs = <<>>
  /\ counters["c1"] = 1

\* C18 (as claimed): a formatted call emits no record whose message, after
\* substitution, contains an entry of the ignore-list.
C18_RenderedMessageIgnored ==
  last.op \in FormattedOps
  => \A i \in 1..Len(last.recs) : ~Ignored(last.lg, last.recs[i].msg)

\* a call with a message that is not suppressed, on a Logger with a counter,
\* whose field list is made of pairs with string keys and holds an error
ErrorsAmongPairs ==
  /\ last.op \in LeveledOps \cup {"Err"}
  /\ last.lg.errCounter # Nil
  /\ ~Ignored(last.lg, last.msg)
  /\ Len(last.args) >= 2 /\ Len(last.args) % 2 = 0 /\ StringKeys(last.args)
  /\ FirstError(last.args) # 0

\* the err argument of the call, when it has one that is not nil
OwnErr == IF last.op = "Err" /\ last.err # Nil THEN <<last.err>> ELSE <<>>

\* every error of the field list after place j is a field of rec under its key
LaterErrorsAreFields(rec, j) ==
  \A p \in (j + 1)..Len(last.args) :
    IsError(last.args[p]) => HasPair(rec, last.args[p - 1], last.args[p])

\* C19 (as claimed): of the error-typed arguments of one call, err first and
\* then the field list from left to right, the first one alone is the error
\* attribute of the record, every later one is a field under its own key, and
\* the counter goes up by one.
C19_OnlyFirstErrorExtracted ==
  ErrorsAmongPairs
  => /\ CountedBy(1)
     /\ \A i \in 1..Len(last.recs) :
          IF OwnErr # <<>>
            THEN /\ last.recs[i].errs = OwnErr
                 /\ LaterErrorsAreFields(last.recs[i], 0)
            ELSE /\ last.recs[i].errs = <<last.args[FirstError(last.args)]>>
                 /\ LaterErrorsAreFields(last.recs[i], FirstError(last.args))

\* C19 (amended): of the errors of the field list the first one alone is
\* extracted, every later one is a field under its own key, and the counter
\* goes up by one for it; the non-nil err of Err is extracted and counted in
\* addition to the first error of the field list.
C19_FirstErrorPerScan ==
  ErrorsAmongPairs
  => /\ CountedBy(Len(OwnErr) + 1)
     /\ \A i \in 1..Len(last.recs) :
          /\ last.recs[i].errs = OwnErr \o <<last.args[FirstError(last.args)]>>
          /\ LaterErrorsAreFields(last.recs[i], FirstError(last.args))

C19_Witness ==
  /\ last.op = "Info" /\ last.msg = <<"m">>
  /\ last.args = <<"k", "v", "k", "e1", "v", "e1">>
  /\ Len(last.recs) = 1 /\ last.recs[1].errs = <<"e1">>
  /\ HasPair(last.recs[1], "v", "e1")
  /\ counters["c1"] = 1

\* C20: the second call of a pair writes the records the first call wrote and
\* makes as many increments, whether the caller passes the very same slice to
\* both calls or a fresh one.
C20_SameRecordsTwice ==
  (last.op # "none" /\ inp.first.op = last.op)
  => /\ last.recs = inp.first.recs
     /\ last.inc = inp.first.inc

\* the list f without its elements at the places j - 1 and j
WithoutPair(f, j) == SubSeq(f, 1, j - 2) \o SubSeq(f, j + 1, Len(f))

\* C21: a leveled call whose field list of pairs holds an error at a value
\* position forwards to the backend the caller's list without that error and
\* the key before it: the fields of the record are the remaining pairs in
\* their order, each once, one pair fewer than the caller gave.
C21_ForwardedListShortened ==
  (/\ last.op \in LeveledOps
   /\ Len(last.args) >= 2 /\ Len(last.args) % 2 = 0 /\ StringKeys(last.args)
   /\ FirstError(last.args) # 0
   /\ ~Ignored(last.lg, last.msg))
  => \A i \in 1..Len(last.recs) :
       /\ last.recs[i].fields
            = PairsFrom(WithoutPair(last.args, FirstError(last.args)), 1)
       /\ 2 * Len(last.recs[i].fields) = Len(last.args) - 2

\* C22: in a formatted call whose message has N markers, 1 <= N <= len(args),
\* and whose only error values are among the first N arguments, the record
\* has no error attribute, the counter stays and the caller's slice is as it
\* was.
C22_FormatArgsNotScanned ==
  (/\ last.op \in FormattedOps
   /\ NFormats >= 1 /\ NFormats <= Len(last.args)
   /\ ~Ignored(last.lg, last.msg)
   /\ FirstError(last.args) # 0
   /\ \A p \in 1..Len(last.args) : IsError(last.args[p]) => p <= NFormats)
  => /\ \A i \in 1..Len(last.recs) : last.recs[i].errs = <<>>
     /\ CounterUntouched
     /\ last.argsAfter = last.args

\* C23: a Logger built from the caller's list suppresses a message exactly
\* when the message contains an entry the list had when the Logger was
\* built, whatever the caller wrote into the list afterwards.
C23_IgnoreListOwned ==
  (last.op \in {"Info", "Infof"} /\ inp.ref = inp.list)
  => (last.recs = <<>>
      <=> \E i \in 1..Len(inp.list0) : Contains(last.msg, inp.list0[i]))

\* a formatted call whose message has more markers than it has arguments
FewerArgsThanMarkers ==
  /\ last.op \in FormattedOps
  /\ NFormats > Len(last.args)
  /\ ~Ignored(last.lg, last.msg)

\* C24 (as claimed): such a call returns, and every record carries the
\* message as it was given, nothing substituted.
C24_ShortArgsVerbatim ==
  FewerArgsThanMarkers
  => /\ last.out = "return"
     /\ \A i \in 1..Len(last.recs) : last.recs[i].msg = last.msg

\* C24 (amended): such a call returns, scans nothing and adds no field; with
\* no argument every record carries the message as it was given, with one
\* argument or more it carries Sprintf of the message and the arguments, in
\* which the markers left without an argument are rendered as missing.
C24_ShortArgsSprintf ==
  FewerArgsThanMarkers
  => /\ last.out = "return"
     /\ CounterUntouched
     /\ last.argsAfter = last.args
     /\ \A i \in 1..Len(last.recs) :
          /\ last.recs[i].msg = IF Len(last.args) = 0 THEN last.msg
                                 ELSE Sprintf(last.msg, last.args)
          /\ last.recs[i].fields = <<>>
          /\ last.recs[i].errs = <<>>

C24_Witness ==
  /\ last.op = "Infof" /\ last.msg = <<"%", "s", "%", "d">>
  /\ last.args = <<"k">>
  /\ Len(last.recs) = 1
  /\ last.recs[1].msg = <<"k", "%!d(MISSING)">>

\* C25: when a call of any entry point is over, the slice the caller passed
\* as fields... or args... holds what it held before the call.
C25_CallerSliceUntouched ==
  last.op # "none" => last.argsAfter = last.args

\* C26: for a message without a marker, Infof on a Logger built from the
\* same Config, with an argument list of the same contents, writes the
\* records Info wrote and makes as many increments, whatever the length of
\* the list.
C26_InfoLikeInfof ==
  (/\ last.op = "Infof" /\ inp.first.op = "Info"
   /\ CountPercent(last.msg) = 0
   /\ last.args = inp.first.args)
  => /\ last.recs = inp.first.recs
     /\ last.inc = inp.first.inc

\* C27: a Logger obtained from the global one by Default or a With* function
\* keeps the sink, level, ignore-list, counter and stack-trace flag it was
\* obtained with through every later Init and Update, and logs with them.
C27_EarlierValueKept ==
  /\ inp.pc \in {"held", "changed"}
       => /\ lg.l = inp.snap.l
          /\ lg.toIgnore = inp.snap.toIgnore
          /\ lg.errCounter = inp.snap.errCounter
          /\ lg.stackTrace = inp.snap.stackTrace
  /\ last.op = "Logger.Info"
       => /\ last.lg = inp.snap
          /\ last.recs = Logger_Info(inp.snap, last.msg, <<>>).recs

C27_Witness ==
  /\ inp.pc = "changed" /\ inp.by = "Default"
  /\ log # inp.g0
  /\ last.op = "Logger.Info" /\ Len(last.recs) = 1
  /\ last.recs[1].sink # log.l.w[1]

\* C28: after a global With* function has returned its Logger, the global
\* Logger is the one it was before, and the free function Info writes and
\* suppresses as that one did.
C28_GlobalWithLeavesGlobal ==
  (/\ inp.by \in {"WithFields", "WithLevel", "WithErrorCounter", "WithToIgnore"}
   /\ inp.pc = "held")
  => /\ log = inp.g0
     /\ last.op = "Info"
          => last.recs = Logger_Info(inp.g0, last.msg, <<>>).recs

\* C29: a record written by a Logger that New built is timestamped in the
\* time format that Logger was built with, whatever Loggers were built or
\* updated with another format since.
C29_TimeFormatPerLogger ==
  (/\ inp.by = "New"
   /\ last.op = "Logger.Info" /\ Len(last.recs) > 0)
  => last.tff = inp.tff0

\* C30: once a mirror is installed, whenever Init, Update, SetDefault or
\* SetStdLogger has returned, the legacy sink writes through the Logger the
\* free functions use.
C30_MirrorFollowsGlobal ==
  (/\ last.op \in {"Init", "Update", "SetDefault", "SetStdLogger"}
   /\ last.out = "return"
   /\ upd.pc = "idle"
   /\ std.mirrored)
  => std.out = log

====
